---- MODULE Spec2Model ----
(***************************************************************************)
(* Model of the git-ai wrapper: the hook orchestrator of                   *)
(* src/commands/git_handlers.rs, the commit hooks of                       *)
(* src/commands/hooks/commit_hooks.rs and the pre-commit checkpoint of     *)
(* src/authorship/pre_commit.rs.                                           *)
(*                                                                         *)
(* One wrapper process handles one git invocation.  The process is         *)
(* followed from handle_git to its termination; the repository (HEAD, the  *)
(* working log, the rewrite log, the authorship logs) outlives it.         *)
(***************************************************************************)
EXTENDS Integers, Sequences, FiniteSets, TLC

VARIABLES
    pc,                       \* position of the wrapper process in handle_git
    inv,                      \* the invocation: environment, parsed arguments, configuration
    path,                     \* branch of handle_git taken by this invocation
    pre_commit_hook_result,   \* CommandHooksContext.pre_commit_hook_result : Option<bool>
    pre_command_base_commit,  \* Repository.pre_command_base_commit : Option<String>
    preOutcome,               \* how the pre-command hook ended
    postOutcome,              \* how the post-command hook ended
    gitStatus,                \* ExitStatus of the git child (or why there is none)
    wrapperExit,              \* how the wrapper process terminated
    sigDisp,                  \* disposition of the forwarded signals in the wrapper
    child_pgid,               \* CHILD_PGID
    head,                     \* HEAD of the repository: a commit id or NoCommit
    nextId,                   \* next fresh commit id
    rewriteLog,               \* rewrite-log.jsonl
    workingLog,               \* working/checkpoints.jsonl (kinds of the checkpoints)
    authorship,               \* authorship/<commit_id>.json
    phases,                   \* history: phases of handle_git run by this invocation
    hist,                     \* history: the repository when the invocation started (rl, wl,
                              \* head) and the working log when its pre-hook ended (wlPre)
    invocations,              \* number of wrapper processes started so far
    signals,                  \* history: the signals delivered to the wrapper process
    push_authorship_handle,   \* CommandHooksContext.push_authorship_handle
    fetch_authorship_handle,  \* CommandHooksContext.fetch_authorship_handle
    worker,                   \* the background authorship-sync thread of the process
    \* one file followed through a working session, from the base commit to the next
    session,                  \* "idle", "open" (checkpoints pending), "committed" or "amended"
    base_exists,              \* the file exists in the base commit
    base_content,             \* content of the file in the base commit
    base_attr,                \* attribution vector of the file at the base commit
    content,                  \* content of the file on disk
    checkpoints,              \* the checkpoints of the file in the working log
    finalized,                \* the checkpoints the last commit consumed
    char_attr,                \* VirtualAttributions: character attributions at the commit
    attestation,              \* AuthorshipLog: the entries of the file for the new commit
    \* one call of a function of the program
    call,                     \* the function and its arguments, or NoCall
    result,                   \* what the call returned, or Pending
    \* wrapper processes creating checkpoints in one repository
    repo_lock,                \* holder of the per-repository file lock, or None
    creator,                  \* per wrapper: its position in create and what it read
    sequence_log              \* the sequence_no of the checkpoints, in append order

wrapperVars == << pc, inv, path, pre_commit_hook_result, pre_command_base_commit,
                  preOutcome, postOutcome, gitStatus, wrapperExit, sigDisp,
                  child_pgid, head, nextId, rewriteLog, workingLog, authorship,
                  phases, hist, invocations, signals, push_authorship_handle,
                  fetch_authorship_handle, worker >>

workerVars == << push_authorship_handle, fetch_authorship_handle, worker >>

attrVars == << session, base_exists, base_content, base_attr, content, checkpoints,
               finalized, char_attr, attestation >>

callVars == << call, result >>

lockVars == << repo_lock, creator, sequence_log >>

vars == << wrapperVars, attrVars, callVars, lockVars >>

----------------------------------------------------------------------------
(* Bounds of the model *)

MaxCommits == 2        \* commits the repository may receive
MaxInvocations == 2    \* wrapper processes started one after the other
MaxLog == 2            \* checkpoints the working log may hold
MaxSignals == 2        \* signals delivered to one wrapper process

----------------------------------------------------------------------------
(* Values *)

\* Option<String> of a commit id: None is the empty sequence, Some(c) is << c >>
NoCommit == << >>
Some(c) == << c >>
CommitIds == 1..MaxCommits

SIGHUP == 1
SIGINT == 2
SIGQUIT == 3
SIGTERM == 15
\* a signal the wrapper does not forward
SIGKILL == SIGINT + 7

\* install_forwarding_handlers / uninstall_forwarding_handlers act on these four
ForwardedSignals == {SIGTERM, SIGINT, SIGHUP, SIGQUIT}

\* signals that end the git child in the model: one forwarded, one not
GitSignals == {SIGINT, SIGKILL}
GitExitCodes == {0, 1, 128}


Commands == {"commit", "clone", "push", "fetch", "pull", "stash", "status"}

\* the commands of the invocations followed one after the other in a repository
HistoryCommands == {"commit", "clone", "status"}

NoStatus == [kind |-> "none", v |-> 0]
SpawnFailed == [kind |-> "spawn_failed", v |-> 0]
WaitFailed == [kind |-> "wait_failed", v |-> 0]
Exited(c) == [kind |-> "code", v |-> c]
Signaled(s) == [kind |-> "signal", v |-> s]
\* a panic that unwinds out of main ends the process with code 101
PanicExit == [kind |-> "panic", v |-> 101]

\* ExitStatus::success()
Success(status) == status.kind = "code" /\ status.v = 0

NoInvocation ==
    [completion |-> FALSE, command |-> "status", is_help |-> FALSE,
     has_repo |-> FALSE, skip_hooks |-> FALSE, dry_run |-> FALSE,
     amend |-> FALSE, interactive |-> FALSE, rewrite_stash |-> FALSE]

Invocations ==
    { i \in [completion : BOOLEAN, command : Commands, is_help : BOOLEAN,
             has_repo : BOOLEAN, skip_hooks : BOOLEAN, dry_run : BOOLEAN,
             amend : BOOLEAN, interactive : BOOLEAN, rewrite_stash : BOOLEAN] :
        /\ i.command # "commit" => (~i.dry_run /\ ~i.amend)
        /\ i.command # "stash" => ~i.rewrite_stash }

NoHistory == [rl |-> << >>, wl |-> << >>, head |-> NoCommit, wlPre |-> << >>]

DefaultDisp == [s \in ForwardedSignals |-> "SIG_DFL"]
ForwardDisp == [s \in ForwardedSignals |-> "forward_signal_handler"]

----------------------------------------------------------------------------
(* handle_git: which branch an invocation takes *)

\* a hooked branch that does not ask for a repository
RunsHooks_NoRepository(i) == ~i.is_help /\ ~i.skip_hooks

\* the condition of the hooked branch
RunsHooks(i) == ~i.is_help /\ i.has_repo /\ ~i.skip_hooks

\* the condition of the clone branch
IsCloneBranch(i) == i.command = "clone" /\ ~i.is_help /\ ~i.skip_hooks

Dispatch_CloneFirst(i) ==
    IF IsCloneBranch(i) THEN "clone"
    ELSE IF i.completion THEN "completion"
    ELSE IF RunsHooks(i) THEN "hooks"
    ELSE "plain"

Dispatch(i) ==
    IF i.completion THEN "completion"
    ELSE IF IsCloneBranch(i) THEN "clone"
    ELSE IF RunsHooks(i) THEN "hooks"
    ELSE "plain"

\* first step of each branch
FirstStep(p) == IF p = "hooks" THEN "pre" ELSE "git"

\* what handle_git does once run_pre_command_hooks has returned
AfterPreHooks == "git"

AfterGit_PreAfterGit(p) ==
    CASE p = "hooks" -> "pre"
      [] p = "clone" -> "clonepost"
      [] OTHER -> "exit"

\* what follows the return of proxy_to_git in each branch
AfterGit(p) ==
    CASE p = "hooks" -> "post"
      [] p = "clone" -> "clonepost"
      [] OTHER -> "exit"

\* what handle_git does once run_post_command_hooks has returned
AfterPostHooks == "exit"

----------------------------------------------------------------------------
(* Checkpoint store and rewrite log, as far as the hooks use them *)

HasAI(wl) == \E k \in 1..Len(wl) : wl[k] = "AIAgent"

\* checkpoint::run(repo, author, kind, .., skip_if_no_ai): the working log after
\* the call.  `changed` says whether the content differs from the last checkpoint.
CheckpointRun(wl, kind, changed, skip_if_no_ai) ==
    IF ~changed /\ kind = "Human" /\ skip_if_no_ai /\ ~HasAI(wl)
    THEN wl
    ELSE IF wl = << >> THEN << "Initial", kind >> ELSE Append(wl, kind)

\* pre_commit: the Human checkpoint taken with skip_if_no_ai = true
PreCommit(wl, changed) == CheckpointRun(wl, "Human", changed, TRUE)

Commit(original, new) == [type |-> "Commit", old |-> original, new |-> new]
CommitAmend(original, new) == [type |-> "CommitAmend", old |-> original, new |-> new]
NoEvent == [type |-> "none", old |-> NoCommit, new |-> NoCommit]

----------------------------------------------------------------------------
(* commit_hooks.rs *)

\* ways the body of commit_pre_command_hook can end once it is past the dry-run test
PreCommitOutcomes == {"ok", "bare", "error", "panic_head", "panic_checkpoint"}

CommitPreCommandHook_NoDryRunTest(i, h, wl, out, changed) ==
    CASE out = "panic_head" ->
            [ret |-> "None", base |-> NoCommit, wl |-> wl, end |-> "panicked"]
      [] out = "panic_checkpoint" ->
            [ret |-> "None", base |-> h, wl |-> wl, end |-> "panicked"]
      [] out = "bare" ->
            [ret |-> "Some(false)", base |-> h, wl |-> wl, end |-> "returned"]
      [] out = "error" ->
            [ret |-> "None", base |-> h, wl |-> wl, end |-> "exit(1)"]
      [] OTHER ->
            [ret |-> "Some(true)", base |-> h, wl |-> PreCommit(wl, changed),
             end |-> "returned"]

\* commit_pre_command_hook: `ret` is what run_pre_command_hooks stores in
\* pre_commit_hook_result, `base` the HEAD left on the repository object, `wl`
\* the working log, `end` how control leaves the hook.
CommitPreCommandHook(i, h, wl, out, changed) ==
    IF i.dry_run
    THEN [ret |-> "Some(false)", base |-> NoCommit, wl |-> wl, end |-> "returned"]
    ELSE CASE out = "panic_head" ->
                [ret |-> "None", base |-> NoCommit, wl |-> wl, end |-> "panicked"]
           [] out = "panic_checkpoint" ->
                [ret |-> "None", base |-> h, wl |-> wl, end |-> "panicked"]
           [] out = "bare" ->
                [ret |-> "Some(false)", base |-> h, wl |-> wl, end |-> "returned"]
           [] out = "error" ->
                [ret |-> "None", base |-> h, wl |-> wl, end |-> "exit(1)"]
           [] OTHER ->
                [ret |-> "Some(true)", base |-> h, wl |-> PreCommit(wl, changed),
                 end |-> "returned"]

PostHookProceeds_PreResultIgnored(i, status, pre_result) ==
    /\ ~i.dry_run
    /\ Success(status)

\* the three early returns of commit_post_command_hook
PostHookProceeds(i, status, pre_result) ==
    /\ ~i.dry_run
    /\ Success(status)
    /\ pre_result # "Some(false)"

CommitEvent_OldNewSwapped(i, original_commit, new_sha) ==
    IF i.amend /\ original_commit # NoCommit /\ new_sha # NoCommit
    THEN CommitAmend(new_sha, original_commit)
    ELSE Commit(new_sha, original_commit)

\* the event commit_post_command_hook builds from --amend, the HEAD kept by the
\* pre-hook and the HEAD found after git ran
CommitEvent(i, original_commit, new_sha) ==
    IF i.amend /\ original_commit # NoCommit /\ new_sha # NoCommit
    THEN CommitAmend(original_commit, new_sha)
    ELSE Commit(original_commit, new_sha)

\* commit_post_command_hook: the event handed to handle_rewrite_log_event, or NoEvent
CommitPostCommandHook(i, status, pre_result, original_commit, new_sha) ==
    IF ~PostHookProceeds(i, status, pre_result) THEN NoEvent
    ELSE IF new_sha = NoCommit THEN NoEvent
    ELSE CommitEvent(i, original_commit, new_sha)

----------------------------------------------------------------------------
(* exit_with_status *)

\* libc::raise(sig) in the wrapper: the default disposition ends the process by the
\* signal; an installed handler returns, and unreachable!() then panics
Raise(disp, sig) ==
    IF sig \in DOMAIN disp /\ disp[sig] # "SIG_DFL" THEN PanicExit ELSE Signaled(sig)

\* libc::signal(sig, SIG_DFL)
ResetDisposition(disp, sig) ==
    IF sig \in DOMAIN disp THEN [disp EXCEPT ![sig] = "SIG_DFL"] ELSE disp

ExitWithStatusOutcome(status, disp) ==
    IF status.kind = "signal"
    THEN Raise(ResetDisposition(disp, status.v), status.v)
    ELSE Exited(status.v)

----------------------------------------------------------------------------
(* The git child *)

\* git commit creates a commit: not a dry run, inside a repository, with a commit
\* to amend when --amend is given (and an id left within the model's bound)
CanCommit(i, h, n) ==
    /\ i.command = "commit"
    /\ ~i.dry_run
    /\ i.has_repo
    /\ (i.amend => h # NoCommit)
    /\ n <= MaxCommits

\* a commit invocation that cannot create a commit and is no dry run fails
GitStatuses(i, h, n) ==
    { st \in {Exited(c) : c \in GitExitCodes} \cup {Signaled(s) : s \in GitSignals} :
        (i.command = "commit" /\ ~i.dry_run /\ ~CanCommit(i, h, n)) => ~Success(st) }

\* the child has moved HEAD to a fresh commit
CreatesCommit(i, h, n, st) == CanCommit(i, h, n) /\ Success(st)

----------------------------------------------------------------------------
(* push, fetch, pull and stash hooks *)

SyncCommands == {"push", "fetch", "pull"}

\* ways push_pre_command_hook / fetch_pull_pre_command_hook can end: a worker
\* thread is launched, there is nothing to synchronise, or the hook panics
LaunchOutcomes == {"launched", "none", "panic"}

\* the Option<JoinHandle> the pre-hook returns
SyncPreCommandHook(out) == IF out = "launched" THEN "Some(handle)" ELSE "None"

SyncPostCommandHook_NoJoin(handle, w) == w

\* push_post_command_hook / fetch_pull_post_command_hook: the handle kept in the
\* context is taken and joined
SyncPostCommandHook(handle, w) == IF handle = "None" THEN w ELSE "joined"

StashHooksEnabled_Always(i) == TRUE

\* config.feature_flags().rewrite_stash
StashHooksEnabled(i) == i.rewrite_stash

StashKinds == {"StashCreate", "StashPop"}
StashEvent(kind) == [type |-> kind, old |-> NoCommit, new |-> NoCommit]

\* post_stash_hook: an event for a stash command that succeeded
PostStashHook(rl, status, out, kind) ==
    IF out = "ok" /\ Success(status) THEN Append(rl, StashEvent(kind)) ELSE rl

----------------------------------------------------------------------------
(* The wrapper process *)

\* the wrapper processes that create checkpoints in the repository
Wrappers == {"w1", "w2"}

\* the per-repository lock: free, or held by one wrapper
Unlocked == << >>
HeldBy(w) == << w >>

IdleCreator == [pc |-> "idle", sequence_no |-> 0, created |-> 0]

\* no checkpoint is being created
InitNoLock ==
    /\ repo_lock = Unlocked
    /\ creator = [w \in Wrappers |-> IdleCreator]
    /\ sequence_log = << >>

InitWrapper ==
    /\ pc = "idle"
    /\ inv = NoInvocation
    /\ path = "none"
    /\ pre_commit_hook_result = "None"
    /\ pre_command_base_commit = NoCommit
    /\ preOutcome = "none"
    /\ postOutcome = "none"
    /\ gitStatus = NoStatus
    /\ wrapperExit = NoStatus
    /\ sigDisp = DefaultDisp
    /\ child_pgid = 0
    /\ head = NoCommit
    /\ nextId = 1
    /\ rewriteLog = << >>
    /\ workingLog = << >>
    /\ authorship = {}
    /\ phases = << >>
    /\ hist = NoHistory
    /\ invocations = 0
    /\ signals = << >>
    /\ push_authorship_handle = "None"
    /\ fetch_authorship_handle = "None"
    /\ worker = "none"

\* no file is followed
InitNoFile ==
    /\ session = "idle"
    /\ base_exists = FALSE
    /\ base_content = << >>
    /\ base_attr = << >>
    /\ content = << >>
    /\ checkpoints = << >>
    /\ finalized = << >>
    /\ char_attr = << >>
    /\ attestation = {}

NoCall == [fn |-> "none"]
Pending == [kind |-> "pending"]

InitNoCall == call = NoCall /\ result = Pending

Init == InitWrapper /\ InitNoLock /\ InitNoFile /\ InitNoCall

\* handle_git up to the choice of its branch, for an invocation of one of commands
HandleGitOf(commands) ==
    /\ pc = "idle"
    /\ invocations < MaxInvocations
    /\ \E i \in {i \in Invocations : i.command \in commands} :
        /\ inv' = i
        /\ path' = Dispatch(i)
        /\ pc' = FirstStep(Dispatch(i))
    /\ hist' = [rl |-> rewriteLog, wl |-> workingLog, head |-> head, wlPre |-> workingLog]
    /\ invocations' = invocations + 1
    /\ UNCHANGED << pre_commit_hook_result, pre_command_base_commit, preOutcome,
                    postOutcome, gitStatus, wrapperExit, sigDisp, child_pgid, head,
                    nextId, rewriteLog, workingLog, authorship, phases >>
    /\ UNCHANGED << signals, workerVars, attrVars, callVars, lockVars >>

HandleGit == HandleGitOf(HistoryCommands)

HandleAnyGit == HandleGitOf(Commands)

\* run_pre_command_hooks, the hook it dispatches to included
RunPreCommandHooks ==
    /\ pc = "pre"
    /\ phases' = Append(phases, "pre")
    /\ \/ /\ inv.command = "commit"
          /\ \E out \in PreCommitOutcomes, changed \in BOOLEAN :
                LET r == CommitPreCommandHook(inv, head, workingLog, out, changed) IN
                /\ preOutcome' = IF inv.dry_run THEN "dry_run" ELSE out
                /\ pre_command_base_commit' = r.base
                /\ workingLog' = r.wl
                /\ hist' = [hist EXCEPT !.wlPre = r.wl]
                /\ IF r.end = "exit(1)"
                   THEN /\ wrapperExit' = Exited(1)
                        /\ pc' = "done"
                        /\ UNCHANGED pre_commit_hook_result
                   ELSE /\ pre_commit_hook_result' = r.ret
                        /\ pc' = AfterPreHooks
                        /\ UNCHANGED wrapperExit
          /\ UNCHANGED workerVars
       \/ /\ inv.command \in SyncCommands
          /\ \E out \in LaunchOutcomes :
                LET handle == SyncPreCommandHook(out) IN
                /\ preOutcome' = out
                /\ worker' = IF handle = "None" THEN worker ELSE "running"
                /\ IF out = "panic" THEN UNCHANGED << push_authorship_handle,
                                                      fetch_authorship_handle >>
                   ELSE IF inv.command = "push"
                   THEN push_authorship_handle' = handle
                        /\ UNCHANGED fetch_authorship_handle
                   ELSE fetch_authorship_handle' = handle
                        /\ UNCHANGED push_authorship_handle
          /\ pc' = AfterPreHooks
          /\ UNCHANGED << pre_commit_hook_result, pre_command_base_commit,
                          workingLog, wrapperExit, hist >>
       \/ /\ inv.command = "stash"
          /\ IF StashHooksEnabled(inv)
             THEN \E out \in {"ok", "panic"} : preOutcome' = out
             ELSE preOutcome' = "disabled"
          /\ pc' = AfterPreHooks
          /\ UNCHANGED << pre_commit_hook_result, pre_command_base_commit,
                          workingLog, wrapperExit, hist >>
          /\ UNCHANGED workerVars
       \/ /\ inv.command \notin {"commit", "stash"} \cup SyncCommands
          /\ preOutcome' = "ok"
          /\ pc' = AfterPreHooks
          /\ UNCHANGED << pre_commit_hook_result, pre_command_base_commit,
                          workingLog, wrapperExit, hist >>
          /\ UNCHANGED workerVars
    /\ UNCHANGED << inv, path, postOutcome, gitStatus, sigDisp, child_pgid, head,
                    nextId, rewriteLog, authorship, invocations >>
    /\ UNCHANGED << signals, attrVars, callVars, lockVars >>

\* proxy_to_git up to the return of cmd.spawn(): the child of a non-interactive
\* run is in a process group of its own (setpgid in pre_exec)
SpawnGit ==
    /\ pc = "git"
    /\ \/ /\ pc' = IF ~inv.interactive THEN "spawned" ELSE "wait"
          /\ phases' = Append(phases, "spawn")
          /\ UNCHANGED << gitStatus, wrapperExit >>
       \/ /\ gitStatus' = SpawnFailed
          /\ wrapperExit' = Exited(1)
          /\ pc' = "done"
          /\ UNCHANGED phases
    /\ UNCHANGED << inv, path, pre_commit_hook_result, pre_command_base_commit,
                    preOutcome, postOutcome, child_pgid, sigDisp, head, nextId,
                    rewriteLog, workingLog, authorship, hist, invocations >>
    /\ UNCHANGED << signals, workerVars, attrVars, callVars, lockVars >>

\* CHILD_PGID.store(pgid): the id of the child stands for its process group
StoreChildPgid ==
    /\ pc = "spawned"
    /\ child_pgid' = invocations
    /\ pc' = "stored"
    /\ UNCHANGED << inv, path, pre_commit_hook_result, pre_command_base_commit,
                    preOutcome, postOutcome, gitStatus, wrapperExit, sigDisp, head,
                    nextId, rewriteLog, workingLog, authorship, phases, hist,
                    invocations >>
    /\ UNCHANGED << signals, workerVars, attrVars, callVars, lockVars >>

\* install_forwarding_handlers
InstallForwardingHandlers ==
    /\ pc = "stored"
    /\ sigDisp' = ForwardDisp
    /\ pc' = "wait"
    /\ UNCHANGED << inv, path, pre_commit_hook_result, pre_command_base_commit,
                    preOutcome, postOutcome, gitStatus, wrapperExit, child_pgid, head,
                    nextId, rewriteLog, workingLog, authorship, phases, hist,
                    invocations >>
    /\ UNCHANGED << signals, workerVars, attrVars, callVars, lockVars >>

Teardown_HandlersKept(setpgid, disp) == [pgid |-> 0, disp |-> disp]

\* what both arms of the match on child.wait() do first: CHILD_PGID.store(0) and
\* uninstall_forwarding_handlers, if the child has a process group of its own
Teardown(setpgid, disp) ==
    [pgid |-> 0, disp |-> IF setpgid THEN DefaultDisp ELSE disp]

\* proxy_to_git from child.wait() on: the child ends, the handlers are removed
WaitGit ==
    /\ pc = "wait"
    /\ child_pgid' = Teardown(~inv.interactive, sigDisp).pgid
    /\ sigDisp' = Teardown(~inv.interactive, sigDisp).disp
    /\ \/ /\ \E st \in GitStatuses(inv, head, nextId) :
                /\ gitStatus' = st
                /\ IF CreatesCommit(inv, head, nextId, st)
                   THEN head' = Some(nextId) /\ nextId' = nextId + 1
                   ELSE UNCHANGED << head, nextId >>
          /\ phases' = Append(phases, "reaped")
          /\ pc' = AfterGit(path)
          /\ UNCHANGED wrapperExit
       \/ /\ gitStatus' = WaitFailed
          /\ wrapperExit' = Exited(1)
          /\ pc' = "done"
          /\ UNCHANGED << phases, head, nextId >>
    /\ UNCHANGED << inv, path, pre_commit_hook_result, pre_command_base_commit,
                    preOutcome, postOutcome, rewriteLog, workingLog, authorship,
                    hist, invocations >>
    /\ UNCHANGED << signals, workerVars, attrVars, callVars, lockVars >>

\* what the clean-up after a commit leaves of the working log: nothing, or its
\* Initial checkpoints (pre_commit.rs records that they may not be deleted)
LeftAfterCommit(wl) == {<< >>, SelectSeq(wl, LAMBDA kind : kind = "Initial")}

\* an event written at the head of the rewrite log
AppendEvent_AtHead(rl, event) == << event >> \o rl

\* the rewrite log with one more event
AppendEvent(rl, event) == Append(rl, event)

\* handle_rewrite_log_event storing the authorship log under the commit rewritten
HandleRewriteLogEvent_KeyedByOld(event) ==
    /\ rewriteLog' = Append(rewriteLog, event)
    /\ authorship' = authorship \cup {[commit |-> event.old, log |-> workingLog]}
    /\ workingLog' \in LeftAfterCommit(workingLog)

\* Repository::handle_rewrite_log_event(event, .., is_commit = true): the event is
\* appended, the working log becomes the authorship log of the new commit
HandleRewriteLogEvent(event) ==
    /\ rewriteLog' = AppendEvent(rewriteLog, event)
    /\ authorship' = authorship \cup {[commit |-> event.new, log |-> workingLog]}
    /\ workingLog' \in LeftAfterCommit(workingLog)

\* run_post_command_hooks, the hook it dispatches to included
RunPostCommandHooks ==
    /\ pc = "post"
    /\ phases' = Append(phases, "post")
    /\ pc' = AfterPostHooks
    /\ \/ /\ inv.command = "commit"
          /\ \/ /\ postOutcome' = "panic"
                /\ UNCHANGED << rewriteLog, authorship, workingLog >>
             \/ \E new_sha \in {head, NoCommit} :
                  LET event == CommitPostCommandHook(inv, gitStatus,
                                   pre_commit_hook_result, pre_command_base_commit,
                                   new_sha) IN
                  /\ postOutcome' = IF new_sha = NoCommit THEN "no_head" ELSE "ok"
                  /\ IF event = NoEvent
                     THEN UNCHANGED << rewriteLog, authorship, workingLog >>
                     ELSE HandleRewriteLogEvent(event)
          /\ UNCHANGED workerVars
       \/ /\ inv.command \in SyncCommands
          /\ \E out \in {"ok", "panic"} :
                /\ postOutcome' = out
                /\ IF out = "panic" THEN UNCHANGED workerVars
                   ELSE /\ worker' = SyncPostCommandHook(
                                         IF inv.command = "push"
                                         THEN push_authorship_handle
                                         ELSE fetch_authorship_handle, worker)
                        /\ IF inv.command = "push"
                           THEN push_authorship_handle' = "None"
                                /\ UNCHANGED fetch_authorship_handle
                           ELSE fetch_authorship_handle' = "None"
                                /\ UNCHANGED push_authorship_handle
          /\ UNCHANGED << rewriteLog, authorship, workingLog >>
       \/ /\ inv.command = "stash"
          /\ IF StashHooksEnabled(inv)
             THEN \E out \in {"ok", "panic"}, kind \in StashKinds :
                    /\ postOutcome' = out
                    /\ rewriteLog' = PostStashHook(rewriteLog, gitStatus, out, kind)
             ELSE postOutcome' = "disabled" /\ UNCHANGED rewriteLog
          /\ UNCHANGED << authorship, workingLog >>
          /\ UNCHANGED workerVars
       \/ /\ inv.command \notin {"commit", "stash"} \cup SyncCommands
          /\ postOutcome' = "ok"
          /\ UNCHANGED << rewriteLog, authorship, workingLog >>
          /\ UNCHANGED workerVars
    /\ UNCHANGED << inv, path, pre_commit_hook_result, pre_command_base_commit,
                    preOutcome, gitStatus, wrapperExit, sigDisp, child_pgid, head,
                    nextId, hist, invocations >>
    /\ UNCHANGED << signals, attrVars, callVars, lockVars >>

\* clone_hooks::post_clone_hook, called by handle_git outside any catch_unwind
PostCloneHook ==
    /\ pc = "clonepost"
    /\ \/ /\ postOutcome' = "ok"
          /\ pc' = "exit"
          /\ UNCHANGED wrapperExit
       \/ /\ postOutcome' = "panic"
          /\ wrapperExit' = PanicExit
          /\ pc' = "done"
    /\ UNCHANGED << inv, path, pre_commit_hook_result, pre_command_base_commit,
                    preOutcome, gitStatus, sigDisp, child_pgid, head, nextId,
                    rewriteLog, workingLog, authorship, phases, hist,
                    invocations >>
    /\ UNCHANGED << signals, workerVars, attrVars, callVars, lockVars >>

\* exit_with_status
ExitWithStatus ==
    /\ pc = "exit"
    /\ wrapperExit' = ExitWithStatusOutcome(gitStatus, sigDisp)
    /\ sigDisp' = IF gitStatus.kind = "signal"
                  THEN ResetDisposition(sigDisp, gitStatus.v) ELSE sigDisp
    /\ pc' = "done"
    /\ UNCHANGED << inv, path, pre_commit_hook_result, pre_command_base_commit,
                    preOutcome, postOutcome, gitStatus, child_pgid, head, nextId,
                    rewriteLog, workingLog, authorship, phases, hist,
                    invocations >>
    /\ UNCHANGED << signals, workerVars, attrVars, callVars, lockVars >>

\* the process is gone; the repository stays
ProcessGone ==
    /\ pc = "done"
    /\ pc' = "idle"
    /\ inv' = NoInvocation
    /\ path' = "none"
    /\ pre_commit_hook_result' = "None"
    /\ pre_command_base_commit' = NoCommit
    /\ preOutcome' = "none"
    /\ postOutcome' = "none"
    /\ gitStatus' = NoStatus
    /\ wrapperExit' = NoStatus
    /\ sigDisp' = DefaultDisp
    /\ child_pgid' = 0
    /\ phases' = << >>
    /\ hist' = NoHistory
    /\ signals' = << >>
    /\ push_authorship_handle' = "None"
    /\ fetch_authorship_handle' = "None"
    /\ worker' = "none"
    /\ UNCHANGED << head, nextId, rewriteLog, workingLog, authorship, invocations >>
    /\ UNCHANGED << attrVars, callVars, lockVars >>

\* forward_signal_handler: the signal goes to the process group of the child if
\* CHILD_PGID holds one
forward_signal_handler(pgid) == IF pgid > 0 THEN "forwarded" ELSE "dropped"

\* what a signal does on arrival: the default action ends the wrapper
SignalAction(disp, sig, pgid) ==
    IF disp[sig] = "SIG_DFL" THEN "default" ELSE forward_signal_handler(pgid)

\* a signal reaches the wrapper process
DeliverSignal ==
    /\ pc \notin {"idle", "done"}
    /\ Len(signals) < MaxSignals
    /\ \E sig \in ForwardedSignals :
          LET action == SignalAction(sigDisp, sig, child_pgid) IN
          /\ signals' = Append(signals, [sig |-> sig, at |-> pc, action |-> action])
          /\ IF action = "default"
             THEN pc' = "done" /\ wrapperExit' = Signaled(sig)
             ELSE UNCHANGED << pc, wrapperExit >>
    /\ UNCHANGED << inv, path, pre_commit_hook_result, pre_command_base_commit,
                    preOutcome, postOutcome, gitStatus, sigDisp, child_pgid, head,
                    nextId, rewriteLog, workingLog, authorship, phases, hist,
                    invocations >>
    /\ UNCHANGED << workerVars, attrVars, callVars, lockVars >>

\* the background worker comes to its end while the wrapper process lives
WorkerFinishes ==
    /\ worker = "running"
    /\ pc \notin {"idle", "done"}
    /\ worker' = "finished"
    /\ UNCHANGED << pc, inv, path, pre_commit_hook_result, pre_command_base_commit,
                    preOutcome, postOutcome, gitStatus, wrapperExit, sigDisp,
                    child_pgid, head, nextId, rewriteLog, workingLog, authorship,
                    phases, hist, invocations, signals, push_authorship_handle,
                    fetch_authorship_handle >>
    /\ UNCHANGED << attrVars, callVars, lockVars >>

\* `git-ai checkpoint <preset>` between two git invocations: an AI checkpoint
AICheckpoint ==
    /\ pc = "idle"
    /\ Len(CheckpointRun(workingLog, "AIAgent", TRUE, FALSE)) <= MaxLog
    /\ workingLog' = CheckpointRun(workingLog, "AIAgent", TRUE, FALSE)
    /\ UNCHANGED << pc, inv, path, pre_commit_hook_result, pre_command_base_commit,
                    preOutcome, postOutcome, gitStatus, wrapperExit, sigDisp,
                    child_pgid, head, nextId, rewriteLog, authorship, phases,
                    hist, invocations >>
    /\ UNCHANGED << signals, workerVars, attrVars, callVars, lockVars >>

Next ==
    \/ HandleGit
    \/ RunPreCommandHooks
    \/ SpawnGit
    \/ StoreChildPgid
    \/ InstallForwardingHandlers
    \/ WaitGit
    \/ RunPostCommandHooks
    \/ PostCloneHook
    \/ ExitWithStatus
    \/ ProcessGone
    \/ AICheckpoint

Spec == Init /\ [][Next]_vars

\* one wrapper process running any command, with its background worker
NextOnce ==
    \/ HandleAnyGit
    \/ RunPreCommandHooks
    \/ SpawnGit
    \/ StoreChildPgid
    \/ InstallForwardingHandlers
    \/ WaitGit
    \/ RunPostCommandHooks
    \/ PostCloneHook
    \/ ExitWithStatus
    \/ WorkerFinishes

SpecOnce == Init /\ [][NextOnce]_vars

\* one wrapper process, with signals arriving at any moment of its life
NextSig ==
    \/ HandleGit
    \/ RunPreCommandHooks
    \/ SpawnGit
    \/ StoreChildPgid
    \/ InstallForwardingHandlers
    \/ WaitGit
    \/ RunPostCommandHooks
    \/ PostCloneHook
    \/ ExitWithStatus
    \/ DeliverSignal

SpecSig == Init /\ [][NextSig]_vars

-----------------------------------------------------------------------------
(* Attribution tracker: diff_attribute and the line-boundary scan *)

MaxLen == 4                   \* longest file content, in characters
MaxInit == 1                  \* longest content of the file in the base commit
MaxAgentCheckpoints == 1      \* AI checkpoints of the file in one working session

NL == "\n"
CR == "\r"
Letters == {"a", "b"}
Chars == Letters \cup {NL}

Contents(n) == UNION {[1..k -> Chars] : k \in 0..n}

NoPrompt == ""
NoTag == << >>
HumanTag == << "human", NoPrompt >>
\* the session that wrote the base commit, and the session of the working log
BaseSession == [agent_id |-> "mock_ai:s1", prompt_hash |-> "H1"]
NewSession == [agent_id |-> "mock_ai:s2", prompt_hash |-> "H2"]

Min2(a, b) == IF a <= b THEN a ELSE b

Repeat(x, n) == [k \in 1..n |-> x]

CommonPrefix(a, b) ==
    CHOOSE k \in 0..Min2(Len(a), Len(b)) :
        /\ \A i \in 1..k : a[i] = b[i]
        /\ k = Min2(Len(a), Len(b)) \/ a[k + 1] # b[k + 1]

\* the common suffix of what the common prefix p leaves
CommonSuffix(a, b, p) ==
    CHOOSE k \in 0..(Min2(Len(a), Len(b)) - p) :
        /\ \A i \in 0..(k - 1) : a[Len(a) - i] = b[Len(b) - i]
        /\ k = Min2(Len(a), Len(b)) - p \/ a[Len(a) - k] # b[Len(b) - k]

RECURSIVE LcsLen(_, _)
LcsLen(a, b) ==
    IF a = << >> \/ b = << >> THEN 0
    ELSE IF Head(a) = Head(b) THEN 1 + LcsLen(Tail(a), Tail(b))
    ELSE LET x == LcsLen(Tail(a), b)
             y == LcsLen(a, Tail(b))
         IN  IF x >= y THEN x ELSE y

\* a shortest sequence of equal/insert/delete operations from a to b
RECURSIVE Script(_, _)
Script(a, b) ==
    IF a = << >> THEN Repeat("insert", Len(b))
    ELSE IF b = << >> THEN Repeat("delete", Len(a))
    ELSE IF Head(a) = Head(b) THEN << "equal" >> \o Script(Tail(a), Tail(b))
    ELSE IF LcsLen(Tail(a), b) >= LcsLen(a, Tail(b))
         THEN << "delete" >> \o Script(Tail(a), b)
         ELSE << "insert" >> \o Script(a, Tail(b))

\* an edit script that rewrites the content: nothing is kept
EditScript_Rewrite(prev, next) ==
    Repeat("delete", Len(prev)) \o Repeat("insert", Len(next))

\* step 1 of diff_attribute: the minimal edit script, common ends matched first
EditScript(prev, next) ==
    LET p == CommonPrefix(prev, next)
        q == CommonSuffix(prev, next, p)
    IN  Repeat("equal", p)
        \o Script(SubSeq(prev, p + 1, Len(prev) - q), SubSeq(next, p + 1, Len(next) - q))
        \o Repeat("equal", q)

Covers(attr, k, pos) == attr[k].start <= pos /\ pos < attr[k].end

\* TagAt taking the end of an attribution as covered
TagAt_EndInclusive(attr, pos) ==
    IF \E k \in 1..Len(attr) : attr[k].start <= pos /\ pos <= attr[k].end
    THEN LET k == CHOOSE k \in 1..Len(attr) :
                      /\ attr[k].start <= pos /\ pos <= attr[k].end
                      /\ \A j \in 1..(k - 1) : ~(attr[j].start <= pos /\ pos <= attr[j].end)
         IN  << attr[k].author_id, attr[k].prompt_hash >>
    ELSE NoTag

\* the (author_id, prompt_hash) of the attribution that covers character pos
TagAt(attr, pos) ==
    IF \E k \in 1..Len(attr) : Covers(attr, k, pos)
    THEN LET k == CHOOSE k \in 1..Len(attr) :
                      Covers(attr, k, pos) /\ \A j \in 1..(k - 1) : ~Covers(attr, j, pos)
         IN  << attr[k].author_id, attr[k].prompt_hash >>
    ELSE NoTag

\* step 2: equal copies the previous attribution, insert is the new author's,
\* delete contributes nothing; pos is the position reached in prev_content
RECURSIVE Project(_, _, _, _)
Project(script, pos, prev_attr, tag) ==
    IF script = << >> THEN << >>
    ELSE IF Head(script) = "equal"
         THEN << TagAt(prev_attr, pos) >> \o Project(Tail(script), pos + 1, prev_attr, tag)
    ELSE IF Head(script) = "insert"
         THEN << tag >> \o Project(Tail(script), pos, prev_attr, tag)
    ELSE Project(Tail(script), pos + 1, prev_attr, tag)

RunLength(tags) ==
    CHOOSE n \in 1..Len(tags) :
        /\ \A k \in 1..n : tags[k] = tags[1]
        /\ n = Len(tags) \/ tags[n + 1] # tags[1]

\* step 3: adjacent characters of one (author_id, prompt_hash) make one Attribution
RECURSIVE MergeAdjacent(_, _)
MergeAdjacent(tags, from) ==
    IF tags = << >> THEN << >>
    ELSE LET n == RunLength(tags)
             one == [start |-> from, end |-> from + n,
                     author_id |-> tags[1][1], prompt_hash |-> tags[1][2]]
         IN  (IF tags[1] = NoTag THEN << >> ELSE << one >>)
             \o MergeAdjacent(SubSeq(tags, n + 1, Len(tags)), from + n)

\* diff_attribute without step 3: one Attribution per character
diff_attribute_Unmerged(prev_content, next_content, prev_attr, new_author_id, new_prompt_hash) ==
    LET tags == Project(EditScript(prev_content, next_content), 0, prev_attr,
                        << new_author_id, new_prompt_hash >>)
    IN  [k \in 1..Len(tags) |->
            [start |-> k - 1, end |-> k, author_id |-> tags[k][1],
             prompt_hash |-> tags[k][2]]]

diff_attribute(prev_content, next_content, prev_attr, new_author_id, new_prompt_hash) ==
    MergeAdjacent(Project(EditScript(prev_content, next_content), 0, prev_attr,
                          << new_author_id, new_prompt_hash >>), 0)

\* a character of two bytes in UTF-8, such as U+00E9
Wide == "W"
Utf8Len(ch) == IF ch = Wide THEN 2 ELSE 1

\* str::len: the length in bytes
RECURSIVE ByteLen(_)
ByteLen(s) == IF s = << >> THEN 0 ELSE Utf8Len(Head(s)) + ByteLen(Tail(s))

\* content.chars().nth(n), None when the content has n characters or fewer
NoChar == "None"
NthChar(c, n) == IF n < Len(c) THEN c[n + 1] ELSE NoChar

\* str::lines: the pieces ended by "\n" and a last piece that is not empty, each
\* without its "\n" or "\r\n"
RECURSIVE Lines(_)
Lines(c) ==
    IF c = << >> THEN << >>
    ELSE IF \E i \in 1..Len(c) : c[i] = NL
    THEN LET i == CHOOSE i \in 1..Len(c) : c[i] = NL /\ \A j \in 1..(i - 1) : c[j] # NL
             piece == SubSeq(c, 1, i - 1)
             line == IF piece # << >> /\ piece[Len(piece)] = CR
                     THEN SubSeq(piece, 1, Len(piece) - 1)
                     ELSE piece
         IN  << line >> \o Lines(SubSeq(c, i + 1, Len(c)))
    ELSE << c >>

\* the position after the newline character(s) found at char_pos
SkipNewline(c, char_pos) ==
    IF char_pos < ByteLen(c)
    THEN IF NthChar(c, char_pos) = CR
         THEN IF char_pos + 1 < ByteLen(c) /\ NthChar(c, char_pos + 1) = NL
              THEN char_pos + 2
              ELSE char_pos + 1
         ELSE IF NthChar(c, char_pos) = NL THEN char_pos + 1 ELSE char_pos
    ELSE char_pos

\* an unwrap() of chars().nth() that finds None
UnwrapsNone(c, char_pos) ==
    /\ char_pos < ByteLen(c)
    /\ \/ NthChar(c, char_pos) = NoChar
       \/ /\ NthChar(c, char_pos) = CR
          /\ char_pos + 1 < ByteLen(c)
          /\ NthChar(c, char_pos + 1) = NoChar

RECURSIVE Boundaries(_, _, _)
Boundaries(lines, char_pos, c) ==
    IF lines = << >> THEN << >>
    ELSE LET end == char_pos + ByteLen(Head(lines))
         IN  << << char_pos, end >> >> \o Boundaries(Tail(lines), SkipNewline(c, end), c)

\* the scan of the line boundaries panics on an unwrap()
RECURSIVE ScanPanics(_, _, _)
ScanPanics(lines, char_pos, c) ==
    IF lines = << >> THEN FALSE
    ELSE LET end == char_pos + ByteLen(Head(lines))
         IN  UnwrapsNone(c, end) \/ ScanPanics(Tail(lines), SkipNewline(c, end), c)

\* (start, end) of each line, the line terminator left out
line_boundaries(c) == Boundaries(Lines(c), 0, c)

\* Overlaps with an attribution that only touches the line counted as well
Overlaps_Touching(attr, line_start, line_end, c) ==
    LET start_char == attr.start
        end_char == Min2(attr.end, ByteLen(c))
    IN  ~(end_char < line_start \/ start_char > line_end)

Overlaps(attr, line_start, line_end, c) ==
    LET start_char == attr.start
        end_char == Min2(attr.end, ByteLen(c))
    IN  ~(end_char <= line_start \/ start_char >= line_end)

\* per line, the (author_id, prompt_hash) of every attribution that overlaps it
LineTags(c, attributions) ==
    LET b == line_boundaries(c)
    IN  [l \in 1..Len(b) |->
            {<< attributions[k].author_id, attributions[k].prompt_hash >> :
                k \in {k \in 1..Len(attributions) :
                          Overlaps(attributions[k], b[l][1], b[l][2], c)}}]

line_authors(c, attributions) ==
    LET t == LineTags(c, attributions)
    IN  [l \in DOMAIN t |-> {tag[1] : tag \in t[l]}]

-----------------------------------------------------------------------------
(* Virtual attribution engine and authorship log *)

Checkpoint(kind, agent, before, after) ==
    [kind |-> kind, agent_id |-> agent.agent_id, prompt_hash |-> agent.prompt_hash,
     before_content |-> before, after_content |-> after]

NoAgent == [agent_id |-> "", prompt_hash |-> NoPrompt]

\* a store that appends without the Initial snapshot
AppendCheckpoint_NoInitial(log, kind, agent, before, after) ==
    log \o << Checkpoint(kind, agent, before, after) >>

\* the checkpoint store: the first checkpoint of a file in a working session is
\* preceded by an Initial snapshot of the content the session started from
AppendCheckpoint(log, kind, agent, before, after) ==
    (IF log = << >> THEN << Checkpoint("Initial", NoAgent, << >>, before) >> ELSE log)
    \o << Checkpoint(kind, agent, before, after) >>

AgentCheckpoints(log) == {k \in 1..Len(log) : log[k].kind = "AIAgent"}

\* a pre-commit checkpoint skipped whenever the working log holds no AI checkpoint
PreCommitCheckpoint_ChangeIgnored(log, before, after) ==
    IF AgentCheckpoints(log) = {}
    THEN log
    ELSE AppendCheckpoint(log, "Human", NoAgent, before, after)

\* the pre-commit checkpoint: Human, skipped when nothing changed and the working
\* log holds no AI checkpoint
PreCommitCheckpoint(log, before, after) ==
    IF before = after /\ AgentCheckpoints(log) = {}
    THEN log
    ELSE AppendCheckpoint(log, "Human", NoAgent, before, after)

Whole(c, author_id, prompt_hash) ==
    IF c = << >> THEN << >>
    ELSE << [start |-> 0, end |-> Len(c), author_id |-> author_id,
             prompt_hash |-> prompt_hash] >>

\* step 1 of virtualize
Seed(log, existed, attr_at_base) ==
    IF existed THEN attr_at_base
    ELSE Whole(log[1].after_content, "human", NoPrompt)

\* step 2 of virtualize
RECURSIVE Replay(_, _)
Replay(log, attr) ==
    IF log = << >> THEN attr
    ELSE LET cp == Head(log)
             author_id == IF cp.kind = "Human" THEN "human" ELSE cp.agent_id
         IN  Replay(Tail(log),
                    diff_attribute(cp.before_content, cp.after_content, attr,
                                   author_id, cp.prompt_hash))

virtualize(log, existed, attr_at_base) ==
    IF log = << >> THEN attr_at_base
    ELSE Replay(Tail(log), Seed(log, existed, attr_at_base))

\* the lines of next that the line diff from prev does not keep
ModifiedLines(prev, next) ==
    LET kept == SelectSeq(EditScript(Lines(prev), Lines(next)),
                          LAMBDA op : op # "delete")
    IN  {l \in 1..Len(kept) : kept[l] = "insert"}

Single(n) == [single |-> n]
Inclusive(a, b) == [from |-> a, to |-> b]

RangeLines(r) == IF "single" \in DOMAIN r THEN {r.single} ELSE r.from..r.to

\* the minimal list of ranges covering a set of lines, ascending
RECURSIVE Ranges(_)
Ranges(lines) ==
    IF lines = {} THEN << >>
    ELSE LET a == CHOOSE n \in lines : \A m \in lines : n <= m
             b == CHOOSE n \in lines :
                      /\ \A m \in a..n : m \in lines
                      /\ n + 1 \notin lines
                      /\ n >= a
         IN  << IF a = b THEN Single(a) ELSE Inclusive(a, b) >>
             \o Ranges(lines \ (a..b))

IsAgentTag(tag) == tag # NoTag /\ tag[1] # "human"

\* step 1 of finalize: one Entry per AI (author_id, prompt_hash) found on the
\* lines the commit modified
finalize(c, attributions, modified) ==
    LET tags == LineTags(c, attributions)
        agents == {tag \in UNION {tags[l] : l \in modified \cap DOMAIN tags} :
                      IsAgentTag(tag)}
    IN  {[author_id |-> tag[1], prompt_hash |-> tag[2],
          line_ranges |-> Ranges({l \in modified \cap DOMAIN tags : tag \in tags[l]})] :
         tag \in agents}

-----------------------------------------------------------------------------
(* One file through a working session *)

InsertAt(c, pos, s) == SubSeq(c, 1, pos) \o s \o SubSeq(c, pos + 1, Len(c))
DeleteAt(c, pos) == SubSeq(c, 1, pos - 1) \o SubSeq(c, pos + 1, Len(c))
ReplaceAt(c, pos, ch) == [c EXCEPT ![pos] = ch]

\* what one edit inserts: a character, or a line of one letter
Insertions == {<< ch >> : ch \in Chars} \cup {<< ch, NL >> : ch \in Letters}

Edits(c) ==
    { next \in {InsertAt(c, pos, s) : pos \in 0..Len(c), s \in Insertions}
               \cup {DeleteAt(c, pos) : pos \in 1..Len(c)}
               \cup {ReplaceAt(c, pos, ch) : pos \in 1..Len(c), ch \in Letters} :
        Len(next) <= MaxLen /\ next # c }

\* the file as a commit left it: absent, or written by BaseSession or by hand
InitFile ==
    /\ session = "open"
    /\ \E c \in Contents(MaxInit), by \in {"none", "ai", "human"} :
          /\ by = "none" => c = << >>
          /\ base_exists = (by # "none")
          /\ base_content = c
          /\ base_attr = IF by = "ai"
                         THEN Whole(c, BaseSession.agent_id, BaseSession.prompt_hash)
                         ELSE Whole(c, "human", NoPrompt)
          /\ content = c
    /\ checkpoints = << >>
    /\ finalized = << >>
    /\ char_attr = base_attr
    /\ attestation = {}

InitAttr == InitWrapper /\ InitNoLock /\ InitFile /\ InitNoCall

\* an agent edits the file and reports it (git-ai checkpoint)
AgentCheckpoint ==
    /\ session = "open"
    /\ Cardinality(AgentCheckpoints(checkpoints)) < MaxAgentCheckpoints
    /\ \E next \in Edits(content) :
          /\ content' = next
          /\ checkpoints' = AppendCheckpoint(checkpoints, "AIAgent", NewSession, content, next)
    /\ UNCHANGED << session, base_exists, base_content, base_attr, finalized,
                    char_attr, attestation >>
    /\ UNCHANGED << wrapperVars, callVars, lockVars >>

\* git commit: the pre-commit checkpoint takes what the user changed by hand, the
\* post-commit hook virtualizes the working log, finalizes and clears it
CommitFile ==
    /\ session = "open"
    /\ \E next \in Edits(content) \cup {content} :
          LET log == PreCommitCheckpoint(checkpoints, content, next)
              attr == virtualize(log, base_exists, base_attr)
          IN  /\ content' = next
              /\ finalized' = log
              /\ char_attr' = attr
              /\ attestation' = IF log = << >> THEN {}
                                ELSE finalize(next, attr, ModifiedLines(base_content, next))
    /\ checkpoints' = << >>
    /\ session' = "committed"
    /\ UNCHANGED << base_exists, base_content, base_attr >>
    /\ UNCHANGED << wrapperVars, callVars, lockVars >>

NextAttr ==
    \/ AgentCheckpoint
    \/ CommitFile

SpecAttr == InitAttr /\ [][NextAttr]_vars

-----------------------------------------------------------------------------
(* git-ai stats: calculate_file_stats *)

MaxStatsLen == 3              \* longest content given to calculate_file_stats

StatsChars == {"a", NL, CR, Wide}

\* calculate_working_stats skips a file whose content is empty
StatsContents == UNION {[1..k -> StatsChars] : k \in 1..MaxStatsLen}

AuthorOrder == << "human", "mock_ai:s1", "mock_ai:s2" >>

NoInterval == << >>
Intervals == {iv \in (0..MaxStatsLen) \X (1..MaxStatsLen) : iv[1] < iv[2]}

\* the attribution lists: at most one interval for each author
AttributionLists ==
    { SelectSeq([k \in DOMAIN AuthorOrder |->
                    [start |-> IF f[k] = NoInterval THEN 0 ELSE f[k][1],
                     end |-> IF f[k] = NoInterval THEN 0 ELSE f[k][2],
                     author_id |-> AuthorOrder[k], prompt_hash |-> NoPrompt]],
                LAMBDA a : a.start < a.end) :
        f \in [DOMAIN AuthorOrder -> Intervals \cup {NoInterval}] }

Panic == [kind |-> "panic"]

\* the category of a line, from the set of its authors
Categorise_SeveralIsMixed(authors) ==
    IF authors = {} THEN "skip"
    ELSE IF Cardinality(authors) = 1
    THEN IF authors = {"human"} THEN "pure_human" ELSE "pure_ai"
    ELSE "mixed"

Categorise(authors) ==
    IF authors = {} THEN "skip"
    ELSE IF Cardinality(authors) = 1
    THEN IF authors = {"human"} THEN "pure_human" ELSE "pure_ai"
    ELSE IF "human" \in authors THEN "mixed" ELSE "pure_ai"

\* the debug print of the lines computes end - 1 on a usize: it overflows for a
\* line that ends at 0, which panics in a build with overflow checks
DebugPrintOverflows(c) ==
    \E l \in DOMAIN line_boundaries(c) : line_boundaries(c)[l][2] = 0

CountLines(category, cat) == Cardinality({l \in DOMAIN category : category[l] = cat})

\* line_authors and category are kept beside the four counters of FileStats
calculate_file_stats(c, attributions, overflow_checks) ==
    IF ScanPanics(Lines(c), 0, c) \/ (overflow_checks /\ DebugPrintOverflows(c))
    THEN Panic
    ELSE LET authors == line_authors(c, attributions)
             category == [l \in DOMAIN authors |-> Categorise(authors[l])]
         IN  [kind |-> "Ok",
              line_authors |-> authors,
              category |-> category,
              pure_human_lines |-> CountLines(category, "pure_human"),
              mixed_lines |-> CountLines(category, "mixed"),
              pure_ai_lines |-> CountLines(category, "pure_ai"),
              total_lines |-> Cardinality({l \in DOMAIN category : category[l] # "skip"})]

InitStats ==
    /\ InitWrapper
    /\ InitNoLock
    /\ InitNoFile
    /\ result = Pending
    /\ \E c \in StatsContents, attributions \in AttributionLists :
          call = [fn |-> "calculate_file_stats", content |-> c,
                  attributions |-> attributions]

CalculateFileStats ==
    /\ call.fn = "calculate_file_stats"
    /\ result = Pending
    /\ \E overflow_checks \in BOOLEAN :
          result' = calculate_file_stats(call.content, call.attributions, overflow_checks)
    /\ UNCHANGED << call, wrapperVars, attrVars, lockVars >>

SpecStats == InitStats /\ [][CalculateFileStats]_vars

-----------------------------------------------------------------------------
(* git-ai stats: ignore patterns *)

MaxPathLen == 3               \* longest file path
MaxPatternLen == 3            \* longest ignore pattern
MaxPatterns == 1              \* most ignore patterns in one call

Star == "*"
PathChars == {"a", "b", Star}

Strings(n) == UNION {[1..k -> PathChars] : k \in 1..n}

PatternLists == UNION {[1..k -> Strings(MaxPatternLen)] : k \in 0..MaxPatterns}

starts_with(text, prefix) ==
    Len(prefix) <= Len(text) /\ SubSeq(text, 1, Len(prefix)) = prefix

ends_with(text, suffix) ==
    Len(suffix) <= Len(text)
    /\ SubSeq(text, Len(text) - Len(suffix) + 1, Len(text)) = suffix

contains(text, pat) ==
    \E i \in 0..(Len(text) - Len(pat)) : SubSeq(text, i + 1, i + Len(pat)) = pat

RECURSIVE split(_, _)
split(s, sep) ==
    IF \A i \in DOMAIN s : s[i] # sep THEN << s >>
    ELSE LET i == CHOOSE i \in DOMAIN s : s[i] = sep /\ \A j \in 1..(i - 1) : s[j] # sep
         IN  << SubSeq(s, 1, i - 1) >> \o split(SubSeq(s, i + 1, Len(s)), sep)

glob_match(text, pattern) ==
    IF ~contains(pattern, << Star >>) THEN text = pattern
    ELSE LET parts == split(pattern, Star)
         IN  IF Len(parts) = 2 /\ parts[1] = << >> THEN ends_with(text, parts[2])
             ELSE IF Len(parts) = 2 /\ parts[2] = << >> THEN starts_with(text, parts[1])
             ELSE IF Len(parts) = 2 THEN contains(text, parts[2])
             ELSE IF Len(parts) = 3 /\ parts[2] = << >>
             THEN starts_with(text, parts[1]) /\ ends_with(text, parts[3])
             ELSE FALSE

should_ignore_file(file_path, ignore_patterns) ==
    \E k \in DOMAIN ignore_patterns :
        contains(file_path, ignore_patterns[k]) \/ glob_match(file_path, ignore_patterns[k])

InitIgnore ==
    /\ InitWrapper
    /\ InitNoLock
    /\ InitNoFile
    /\ result = Pending
    /\ \E file_path \in Strings(MaxPathLen), ignore_patterns \in PatternLists :
          call = [fn |-> "should_ignore_file", file_path |-> file_path,
                  ignore_patterns |-> ignore_patterns]

ShouldIgnoreFile ==
    /\ call.fn = "should_ignore_file"
    /\ result = Pending
    /\ result' = [kind |-> "Ok",
                  value |-> should_ignore_file(call.file_path, call.ignore_patterns)]
    /\ UNCHANGED << call, wrapperVars, attrVars, lockVars >>

SpecIgnore == InitIgnore /\ [][ShouldIgnoreFile]_vars

-----------------------------------------------------------------------------
(* commit_hooks.rs: get_commit_default_author *)

MaxArgs == 2                  \* most arguments after `git commit`

\* a string is a sequence of tokens: Blank is white space, "@" the at sign, any
\* other token a run of other characters
Blank == " "
None == << >>

Trim(s) ==
    LET solid == {k \in DOMAIN s : s[k] # Blank}
    IN  IF solid = {} THEN << >>
        ELSE SubSeq(s, CHOOSE k \in solid : \A j \in solid : k <= j,
                       CHOOSE k \in solid : \A j \in solid : j <= k)

\* the arguments: --author=<v>, a bare --author, any other word
AuthorEq(v) == [kind |-> "--author=", v |-> v]
AuthorBare == [kind |-> "--author", v |-> << >>]
Word(v) == [kind |-> "word", v |-> v]

ArgText(arg) ==
    CASE arg.kind = "--author=" -> << "--author=" >> \o arg.v
      [] arg.kind = "--author" -> << "--author" >>
      [] OTHER -> arg.v

Args == {AuthorEq(<< >>), AuthorEq(<< "A" >>), AuthorBare, Word(<< "A" >>), Word(<< "-m" >>)}
ArgLists == UNION {[1..k -> Args] : k \in 0..MaxArgs}

\* what the repository answers to resolve_author_spec
ResolveErr == [ok |-> FALSE, v |-> None]
ResolveOk(v) == [ok |-> TRUE, v |-> v]
ResolveOutcomes ==
    {ResolveErr, ResolveOk(None), ResolveOk(Some(<< Blank >>)),
     ResolveOk(Some(<< Blank, "Resolved", Blank, "<r@host>" >>))}

\* std::env::var(..).ok() and repo.config_get_str(..) (an error reads as no value)
Environments ==
    [GIT_AUTHOR_NAME : {None, Some(<< Blank >>), Some(<< "env_name", Blank >>)},
     GIT_AUTHOR_EMAIL : {None, Some(<< Blank >>), Some(<< Blank, "env@host" >>)},
     EMAIL : {None, Some(<< Blank >>), Some(<< "host" >>), Some(<< "@", "host" >>),
              Some(<< Blank, "user", "@", "host" >>)}]

Configs ==
    [user_name : {None, Some(<< Blank >>), Some(<< "cfg_name" >>)},
     user_email : {None, Some(<< Blank >>), Some(<< "cfg@host", Blank >>)}]

RECURSIVE ExtractFrom(_, _)
ExtractFrom(args, i) ==
    IF i > Len(args) THEN None
    ELSE IF args[i].kind = "--author=" THEN Some(args[i].v)
    ELSE IF args[i].kind = "--author" /\ i + 1 <= Len(args) THEN Some(ArgText(args[i + 1]))
    ELSE ExtractFrom(args, i + 1)

extract_author_from_args(args) == ExtractFrom(args, 1)

\* the value of a source if it is there and not blank
NotBlank(source) == source # None /\ Trim(source[1]) # << >>

FirstOf_Swapped(first, second) ==
    IF NotBlank(second) THEN Some(Trim(second[1]))
    ELSE IF NotBlank(first) THEN Some(Trim(first[1]))
    ELSE None

\* the environment variable, else the config value
FirstOf(first, second) ==
    IF NotBlank(first) THEN Some(Trim(first[1]))
    ELSE IF NotBlank(second) THEN Some(Trim(second[1]))
    ELSE None

\* email.find('@') and &email[..at_pos], on the value as it is in the environment
NamePart(email) ==
    LET ats == {k \in DOMAIN email : email[k] = "@"}
    IN  IF ats = {} THEN None
        ELSE LET at_pos == CHOOSE k \in ats : \A j \in ats : k <= j
             IN  IF at_pos = 1 THEN None ELSE Some(SubSeq(email, 1, at_pos - 1))

\* `resolved` is the answer resolve_author_spec gives if it is asked
get_commit_default_author(args, resolved, env, config) ==
    LET author_spec == extract_author_from_args(args)
        name1 == FirstOf(env.GIT_AUTHOR_NAME, config.user_name)
        email1 == FirstOf(env.GIT_AUTHOR_EMAIL, config.user_email)
        use_EMAIL == (name1 = None \/ email1 = None) /\ NotBlank(env.EMAIL)
        author_name == IF use_EMAIL /\ name1 = None THEN NamePart(env.EMAIL[1]) ELSE name1
        author_email == IF use_EMAIL /\ email1 = None THEN Some(Trim(env.EMAIL[1]))
                        ELSE email1
    IN  IF author_spec # None /\ resolved.ok /\ NotBlank(resolved.v)
        THEN [kind |-> "Ok", value |-> Trim(resolved.v[1]), from_arg |-> TRUE,
              author_name |-> None, author_email |-> None]
        ELSE [kind |-> "Ok",
              value |-> IF author_name # None /\ author_email # None
                        THEN author_name[1] \o << " <" >> \o author_email[1] \o << ">" >>
                        ELSE IF author_name # None THEN author_name[1]
                        ELSE IF author_email # None THEN author_email[1]
                        ELSE << "unknown" >>,
              from_arg |-> FALSE,
              author_name |-> author_name,
              author_email |-> author_email]

InitAuthor ==
    /\ InitWrapper
    /\ InitNoLock
    /\ InitNoFile
    /\ result = Pending
    /\ \E args \in ArgLists, resolved \in ResolveOutcomes, env \in Environments,
          config \in Configs :
          call = [fn |-> "get_commit_default_author", args |-> args,
                  resolved |-> resolved, env |-> env, config |-> config]

GetCommitDefaultAuthor ==
    /\ call.fn = "get_commit_default_author"
    /\ result = Pending
    /\ result' = get_commit_default_author(call.args, call.resolved, call.env, call.config)
    /\ UNCHANGED << call, wrapperVars, attrVars, lockVars >>

SpecAuthor == InitAuthor /\ [][GetCommitDefaultAuthor]_vars

-----------------------------------------------------------------------------
(* git_ai_handlers.rs: the checkpoint command *)

MaxCheckpointArgs == 3        \* most arguments after `git-ai checkpoint`

\* presets whose run() can fail, and arguments that name no such preset
FalliblePresets == {"claude"}
CheckpointArgs == FalliblePresets \cup {"mock_ai", "--hook-input", "stdin", Blank, "{json}", "--reset"}
CheckpointArgLists == UNION {[1..k -> CheckpointArgs] : k \in 0..MaxCheckpointArgs}

\* what stdin.read_to_string gives
StdinOutcomes == {"Err", Blank, "{json}"}

ExitCode_AlwaysZero(failed) == 0

\* std::process::exit(1) on an error, the return to main otherwise
ExitCode(failed) == IF failed THEN 1 ELSE 0

\* the value given to --hook-input at args[i] is missing, blank or unreadable
BadHookInput(args, i, stdin) ==
    IF i + 1 <= Len(args)
    THEN IF args[i + 1] = "stdin" THEN stdin \in {"Err", Blank}
         ELSE args[i + 1] = Blank
    ELSE TRUE

\* the while loop over the arguments: TRUE if it ends the process
RECURSIVE ParseFails(_, _, _)
ParseFails(args, i, stdin) ==
    IF i > Len(args) THEN FALSE
    ELSE IF args[i] = "--hook-input"
    THEN BadHookInput(args, i, stdin) \/ ParseFails(args, i + 2, stdin)
    ELSE ParseFails(args, i + 1, stdin)

\* the match on args[0]: TRUE if the preset ends the process
PresetFails(args, preset_ok) ==
    args # << >> /\ args[1] \in FalliblePresets /\ ~preset_ok

\* handle_git_ai "checkpoint" and handle_checkpoint: where the process ends
handle_checkpoint(args, allowed_repository, stdin, preset_ok, repo_found, run_ok) ==
    IF ~allowed_repository THEN [code |-> ExitCode(TRUE), at |-> "not allowed"]
    ELSE IF ParseFails(args, 1, stdin) THEN [code |-> ExitCode(TRUE), at |-> "hook input"]
    ELSE IF PresetFails(args, preset_ok) THEN [code |-> ExitCode(TRUE), at |-> "preset"]
    ELSE IF ~repo_found THEN [code |-> ExitCode(TRUE), at |-> "repository"]
    ELSE IF ~run_ok THEN [code |-> ExitCode(TRUE), at |-> "checkpoint"]
    ELSE [code |-> ExitCode(FALSE), at |-> "return"]

InitCheckpoint ==
    /\ InitWrapper
    /\ InitNoLock
    /\ InitNoFile
    /\ result = Pending
    /\ \E args \in CheckpointArgLists, allowed \in BOOLEAN, stdin \in StdinOutcomes,
          preset_ok \in BOOLEAN, repo_found \in BOOLEAN, run_ok \in BOOLEAN :
          call = [fn |-> "handle_checkpoint", args |-> args,
                  allowed_repository |-> allowed, stdin |-> stdin,
                  preset_ok |-> preset_ok, repo_found |-> repo_found,
                  run_ok |-> run_ok]

HandleCheckpoint ==
    /\ call.fn = "handle_checkpoint"
    /\ result = Pending
    /\ result' = [kind |-> "exit"] @@
                 handle_checkpoint(call.args, call.allowed_repository, call.stdin,
                                   call.preset_ok, call.repo_found, call.run_ok)
    /\ UNCHANGED << call, wrapperVars, attrVars, lockVars >>

SpecCheckpoint == InitCheckpoint /\ [][HandleCheckpoint]_vars

-----------------------------------------------------------------------------
(* The checkpoint store: the checkpoints of one file in the working log *)

MaxStoreLen == 2              \* longest content of the file, in characters
MaxStoreLog == 2              \* checkpoints of the file the working log may hold

\* the store only compares contents: one letter is enough to tell them apart
StoreContents == UNION {[1..k -> {"a"}] : k \in 0..MaxStoreLen}

\* create, step 2: the after_content of the most recent checkpoint of the file;
\* before the first one, the content the session started from
PreviousContent_SessionStart(log, start) == start

PreviousContent(log, start) ==
    IF log = << >> THEN start ELSE log[Len(log)].after_content

\* create, steps 2 to 4, for a candidate file whose on-disk content is disk
create(log, kind, agent, start, disk, skip_if_no_ai) ==
    LET before == PreviousContent(log, start)
    IN  IF kind = "Human" /\ skip_if_no_ai
        THEN PreCommitCheckpoint(log, before, disk)
        ELSE AppendCheckpoint(log, kind, agent, before, disk)

\* the operation that led to the current state, with the log it found
Operation(fn) == [fn |-> fn, log |-> checkpoints]

InitStore ==
    /\ InitWrapper
    /\ InitNoLock
    /\ InitNoCall
    /\ session = "open"
    /\ base_exists = TRUE
    /\ \E c \in StoreContents : base_content = c /\ content = c
    /\ base_attr = << >>
    /\ checkpoints = << >>
    /\ finalized = << >>
    /\ char_attr = << >>
    /\ attestation = {}

\* the user or an agent writes the file
WriteFile ==
    /\ \E c \in StoreContents \ {content} : content' = c
    /\ call' = Operation("write")
    /\ UNCHANGED << session, base_exists, base_content, base_attr, checkpoints,
                    finalized, char_attr, attestation >>
    /\ UNCHANGED << result, wrapperVars, lockVars >>

\* git-ai checkpoint [preset] [pathspecs]: Human without a preset, AiAgent with
\* one; skip_if_no_ai is false; the file may be outside the paths given
CommandCheckpoint ==
    /\ Len(checkpoints) <= MaxStoreLog
    /\ \E kind \in {"Human", "AIAgent"}, candidate \in BOOLEAN :
          /\ call' = Operation("checkpoint") @@ [kind |-> kind, candidate |-> candidate]
          /\ checkpoints' =
                IF candidate
                THEN create(checkpoints, kind,
                            IF kind = "Human" THEN NoAgent ELSE NewSession,
                            base_content, content, FALSE)
                ELSE checkpoints
    /\ UNCHANGED << session, base_exists, base_content, base_attr, content,
                    finalized, char_attr, attestation >>
    /\ UNCHANGED << result, wrapperVars, lockVars >>

\* pre_commit: the Human checkpoint of the commit hook, skip_if_no_ai = true
PreCommitHookCheckpoint ==
    /\ Len(checkpoints) <= MaxStoreLog
    /\ call' = Operation("pre_commit")
    /\ checkpoints' = create(checkpoints, "Human", NoAgent, base_content, content, TRUE)
    /\ UNCHANGED << session, base_exists, base_content, base_attr, content,
                    finalized, char_attr, attestation >>
    /\ UNCHANGED << result, wrapperVars, lockVars >>

\* git-ai checkpoint --reset: the working log is erased
ResetWorkingLog ==
    /\ checkpoints # << >>
    /\ call' = Operation("reset")
    /\ checkpoints' = << >>
    /\ UNCHANGED << session, base_exists, base_content, base_attr, content,
                    finalized, char_attr, attestation >>
    /\ UNCHANGED << result, wrapperVars, lockVars >>

\* the commit after the pre-commit checkpoint: the content becomes the base of
\* the next session; the clean-up erases the working log or leaves its Initial
\* checkpoints behind
CommitDone ==
    /\ call.fn = "pre_commit"
    /\ call' = Operation("commit")
    /\ base_content' = content
    /\ checkpoints' \in {<< >>, SelectSeq(checkpoints, LAMBDA cp : cp.kind = "Initial")}
    /\ UNCHANGED << session, base_exists, base_attr, content, finalized, char_attr,
                    attestation >>
    /\ UNCHANGED << result, wrapperVars, lockVars >>

NextStore ==
    \/ WriteFile
    \/ CommandCheckpoint
    \/ PreCommitHookCheckpoint
    \/ ResetWorkingLog
    \/ CommitDone

SpecStore == InitStore /\ [][NextStore]_vars

-----------------------------------------------------------------------------
(* diff_attribute as a function of its arguments *)

MaxDiffLen == 3               \* longest content given to diff_attribute

DiffContents == UNION {[1..k -> Letters] : k \in 0..MaxDiffLen}

DiffTags == {HumanTag,
             << BaseSession.agent_id, BaseSession.prompt_hash >>,
             << NewSession.agent_id, NewSession.prompt_hash >>}

\* the attribution lists of the data model for [from, n): contiguous, not empty,
\* the first one not of the (author_id, prompt_hash) last
RECURSIVE AttributionsFrom(_, _, _)
AttributionsFrom(from, n, last) ==
    IF from = n THEN {<< >>}
    ELSE UNION { UNION { { << [start |-> from, end |-> e, author_id |-> tag[1],
                               prompt_hash |-> tag[2]] >> \o rest :
                           rest \in AttributionsFrom(e, n, tag) } :
                         tag \in DiffTags \ {last} } :
                 e \in (from + 1)..n }

ValidAttributions(n) == AttributionsFrom(0, n, NoTag)

InitDiff ==
    /\ InitWrapper
    /\ InitNoLock
    /\ InitNoFile
    /\ result = Pending
    /\ \E prev \in DiffContents, next \in DiffContents, tag \in DiffTags :
          \E attr \in ValidAttributions(Len(prev)) :
             call = [fn |-> "diff_attribute", prev_content |-> prev,
                     next_content |-> next, prev_attr |-> attr,
                     new_author_id |-> tag[1], new_prompt_hash |-> tag[2]]

DiffAttribute ==
    /\ call.fn = "diff_attribute"
    /\ result = Pending
    /\ result' = [kind |-> "attributions",
                  attributions |-> diff_attribute(call.prev_content, call.next_content,
                                                  call.prev_attr, call.new_author_id,
                                                  call.new_prompt_hash)]
    /\ UNCHANGED << call, wrapperVars, attrVars, lockVars >>

SpecDiff == InitDiff /\ [][DiffAttribute]_vars

-----------------------------------------------------------------------------
(* Concurrent wrappers creating checkpoints under the per-repository lock *)

MaxCreates == 2               \* checkpoint creations each wrapper attempts

\* the test a wrapper makes before it takes the lock, without the lock
LockFree_Ignored(lock) == TRUE

LockFree(lock) == lock = Unlocked

\* the monotonic counter: one more than the last sequence_no of the working log
NextSequenceNo(log) ==
    IF log = << >> THEN 1 ELSE log[Len(log)].sequence_no + 1

\* create is entered: the wrapper asks for the lock
BeginCreate(w) ==
    /\ creator[w].pc = "idle"
    /\ creator[w].created < MaxCreates
    /\ creator' = [creator EXCEPT ![w].pc = "waiting"]
    /\ UNCHANGED << repo_lock, sequence_log >>
    /\ UNCHANGED << wrapperVars, attrVars, callVars >>

\* the exclusive lock is granted
AcquireLock(w) ==
    /\ creator[w].pc = "waiting"
    /\ LockFree(repo_lock)
    /\ repo_lock' = HeldBy(w)
    /\ creator' = [creator EXCEPT ![w].pc = "locked"]
    /\ UNCHANGED sequence_log
    /\ UNCHANGED << wrapperVars, attrVars, callVars >>

\* the wait for the lock times out: create fails with Locked, nothing is written
LockTimeout(w) ==
    /\ creator[w].pc = "waiting"
    /\ ~LockFree(repo_lock)
    /\ creator' = [creator EXCEPT ![w].pc = "idle", ![w].created = @ + 1]
    /\ UNCHANGED << repo_lock, sequence_log >>
    /\ UNCHANGED << wrapperVars, attrVars, callVars >>

\* the working log is read: the sequence_no of the checkpoint to write
ReadCounter(w) ==
    /\ creator[w].pc = "locked"
    /\ creator' = [creator EXCEPT ![w].pc = "read",
                                  ![w].sequence_no = NextSequenceNo(sequence_log)]
    /\ UNCHANGED << repo_lock, sequence_log >>
    /\ UNCHANGED << wrapperVars, attrVars, callVars >>

\* append_checkpoint
AppendUnderLock(w) ==
    /\ creator[w].pc = "read"
    /\ sequence_log' = Append(sequence_log,
                              [sequence_no |-> creator[w].sequence_no, by |-> w])
    /\ creator' = [creator EXCEPT ![w].pc = "appended"]
    /\ UNCHANGED repo_lock
    /\ UNCHANGED << wrapperVars, attrVars, callVars >>

\* create returns: the lock is released
ReleaseLock(w) ==
    /\ creator[w].pc = "appended"
    /\ repo_lock' = Unlocked
    /\ creator' = [creator EXCEPT ![w].pc = "idle", ![w].created = @ + 1]
    /\ UNCHANGED sequence_log
    /\ UNCHANGED << wrapperVars, attrVars, callVars >>

NextLock ==
    \E w \in Wrappers :
       \/ BeginCreate(w)
       \/ AcquireLock(w)
       \/ LockTimeout(w)
       \/ ReadCounter(w)
       \/ AppendUnderLock(w)
       \/ ReleaseLock(w)

SpecLock == Init /\ [][NextLock]_vars

-----------------------------------------------------------------------------
(* git commit --amend of the file followed *)

\* the old commit's attestation as the starting attribution vector: every line an
\* Entry lists belongs to that Entry's session, every other line to the human
AttestationVector(c, entries) ==
    LET b == line_boundaries(c)
        LineOf(p) == CHOOSE l \in 1..Len(b) :
                        b[l][1] <= p /\ (l = Len(b) \/ b[l + 1][1] > p)
        Listing(l) == {e \in entries :
                          l \in UNION {RangeLines(e.line_ranges[k]) :
                                          k \in DOMAIN e.line_ranges}}
        TagOfLine(l) == IF Listing(l) = {} THEN HumanTag
                        ELSE LET e == CHOOSE e \in Listing(l) : TRUE
                             IN  << e.author_id, e.prompt_hash >>
    IN  MergeAdjacent([k \in 1..Len(c) |-> TagOfLine(LineOf(k - 1))], 0)

\* git commit --amend: the pre-commit checkpoint takes what the user changed since
\* the commit, the Amend rule replays it over the attestation of the old commit
\* and finalizes under the new commit id
AmendFile ==
    /\ session = "committed"
    /\ \E next \in Edits(content) \cup {content} :
          LET log == PreCommitCheckpoint(<< >>, content, next)
              start == AttestationVector(content, attestation)
              attr == IF log = << >> THEN start ELSE Replay(Tail(log), start)
          IN  /\ content' = next
              /\ char_attr' = attr
              /\ attestation' = IF log = << >> THEN attestation
                                ELSE finalize(next, attr, ModifiedLines(base_content, next))
    /\ session' = "amended"
    /\ UNCHANGED << base_exists, base_content, base_attr, checkpoints, finalized >>
    /\ UNCHANGED << wrapperVars, callVars, lockVars >>

NextAmend ==
    \/ AgentCheckpoint
    \/ CommitFile
    \/ AmendFile

SpecAmend == InitAttr /\ [][NextAmend]_vars

-----------------------------------------------------------------------------
(* git-ai stats: the arguments of handle_stats *)

MaxStatsArgs == 3             \* arguments after `stats`

StatsArgs == {"--json", "--ignore", "*.md", "Cargo.lock", "package.lock", "HEAD", "a..b"}

StatsArgLists == UNION {[1..n -> StatsArgs] : n \in 0..MaxStatsArgs}

\* arg.split("..").len()
RECURSIVE RangeParts(_)
RangeParts(arg) ==
    IF ~contains(arg, "..") THEN 1
    ELSE LET k == CHOOSE k \in 1..(Len(arg) - 1) :
                      /\ SubSeq(arg, k, k + 1) = ".."
                      /\ \A j \in 1..(k - 1) : SubSeq(arg, j, j + 1) # ".."
         IN  1 + RangeParts(SubSeq(arg, k + 2, Len(arg)))

\* the inner loop of --ignore: the index (from 0) at which collecting stops
RECURSIVE CollectPatterns(_, _, _, _)
CollectPatterns(args, i, commit_sha, found_pattern) ==
    IF i >= Len(args) THEN i
    ELSE LET arg == args[i + 1]
         IN  IF starts_with(arg, "--") THEN i
             ELSE IF \/ contains(arg, "..")
                     \/ (commit_sha = None /\ ~found_pattern /\ Len(arg) >= 7)
             THEN i
             ELSE CollectPatterns(args, i + 1, commit_sha, TRUE)

NoStatsArgs ==
    [json_output |-> FALSE, commit_sha |-> None, commit_range |-> None,
     ignore_patterns |-> << >>, at |-> "parsed"]

\* the loop over the arguments, from index i on; at names the exit taken, if any
RECURSIVE ParseStatsArgs(_, _, _, _)
ParseStatsArgs(args, i, st, range_ok) ==
    IF i >= Len(args) THEN st
    ELSE LET arg == args[i + 1]
         IN  IF arg = "--json"
             THEN ParseStatsArgs(args, i + 1, [st EXCEPT !.json_output = TRUE], range_ok)
             ELSE IF arg = "--ignore"
             THEN LET stop == CollectPatterns(args, i + 1, st.commit_sha, FALSE)
                  IN  IF stop = i + 1 THEN [st EXCEPT !.at = "ignore"]
                      ELSE ParseStatsArgs(args, stop,
                               [st EXCEPT !.ignore_patterns = @ \o SubSeq(args, i + 2, stop)],
                               range_ok)
             ELSE IF st.commit_sha # None THEN [st EXCEPT !.at = "unknown argument"]
             ELSE IF ~contains(arg, "..")
             THEN ParseStatsArgs(args, i + 1, [st EXCEPT !.commit_sha = Some(arg)], range_ok)
             ELSE IF RangeParts(arg) # 2 THEN [st EXCEPT !.at = "range format"]
             ELSE IF ~range_ok THEN [st EXCEPT !.at = "range"]
             ELSE ParseStatsArgs(args, i + 1, [st EXCEPT !.commit_range = Some(arg)], range_ok)

\* handle_stats: where the process ends and with what the statistics were asked
handle_stats(args, repo_found, range_ok, stats_ok) ==
    IF ~repo_found THEN [NoStatsArgs EXCEPT !.at = "repository"] @@ [kind |-> "exit", code |-> 1]
    ELSE LET st == ParseStatsArgs(args, 0, NoStatsArgs, range_ok)
         IN  IF st.at # "parsed" THEN st @@ [kind |-> "exit", code |-> 1]
             ELSE IF ~stats_ok THEN [st EXCEPT !.at = "stats"] @@ [kind |-> "exit", code |-> 1]
             ELSE st @@ [kind |-> "return", code |-> 0]

InitStatsArgs ==
    /\ InitWrapper
    /\ InitNoLock
    /\ InitNoFile
    /\ result = Pending
    /\ \E args \in StatsArgLists, repo_found \in BOOLEAN, range_ok \in BOOLEAN,
          stats_ok \in BOOLEAN :
          call = [fn |-> "handle_stats", args |-> args, repo_found |-> repo_found,
                  range_ok |-> range_ok, stats_ok |-> stats_ok]

HandleStats ==
    /\ call.fn = "handle_stats"
    /\ result = Pending
    /\ result' = handle_stats(call.args, call.repo_found, call.range_ok, call.stats_ok)
    /\ UNCHANGED << call, wrapperVars, attrVars, lockVars >>

SpecStatsArgs == InitStatsArgs /\ [][HandleStats]_vars

-----------------------------------------------------------------------------
(* proxy_to_git after child.wait(), statement by statement, with signals *)

\* child.wait() returns: the child is reaped, CHILD_PGID and the handlers are
\* still what they were while it ran
ChildReaped ==
    /\ pc = "wait"
    /\ \/ /\ \E st \in GitStatuses(inv, head, nextId) :
                /\ gitStatus' = st
                /\ IF CreatesCommit(inv, head, nextId, st)
                   THEN head' = Some(nextId) /\ nextId' = nextId + 1
                   ELSE UNCHANGED << head, nextId >>
          /\ phases' = Append(phases, "reaped")
       \/ /\ gitStatus' = WaitFailed
          /\ UNCHANGED << phases, head, nextId >>
    /\ pc' = "reaped"
    /\ UNCHANGED << inv, path, pre_commit_hook_result, pre_command_base_commit,
                    preOutcome, postOutcome, wrapperExit, sigDisp, child_pgid,
                    rewriteLog, workingLog, authorship, hist, invocations >>
    /\ UNCHANGED << signals, workerVars, attrVars, callVars, lockVars >>

\* CHILD_PGID.store(0), in both arms of the match on the status
ResetChildPgid ==
    /\ pc = "reaped"
    /\ child_pgid' = Teardown(~inv.interactive, sigDisp).pgid
    /\ pc' = "reset"
    /\ UNCHANGED << inv, path, pre_commit_hook_result, pre_command_base_commit,
                    preOutcome, postOutcome, gitStatus, wrapperExit, sigDisp, head,
                    nextId, rewriteLog, workingLog, authorship, phases, hist,
                    invocations >>
    /\ UNCHANGED << signals, workerVars, attrVars, callVars, lockVars >>

\* uninstall_forwarding_handlers, then the return of the status or exit(1)
UninstallForwardingHandlers ==
    /\ pc = "reset"
    /\ sigDisp' = Teardown(~inv.interactive, sigDisp).disp
    /\ IF gitStatus = WaitFailed
       THEN pc' = "done" /\ wrapperExit' = Exited(1)
       ELSE pc' = AfterGit(path) /\ UNCHANGED wrapperExit
    /\ UNCHANGED << inv, path, pre_commit_hook_result, pre_command_base_commit,
                    preOutcome, postOutcome, gitStatus, child_pgid, head, nextId,
                    rewriteLog, workingLog, authorship, phases, hist,
                    invocations >>
    /\ UNCHANGED << signals, workerVars, attrVars, callVars, lockVars >>

\* one wrapper process, the signals interleaved with each statement of the
\* teardown
NextReap ==
    \/ HandleGit
    \/ RunPreCommandHooks
    \/ SpawnGit
    \/ StoreChildPgid
    \/ InstallForwardingHandlers
    \/ ChildReaped
    \/ ResetChildPgid
    \/ UninstallForwardingHandlers
    \/ RunPostCommandHooks
    \/ PostCloneHook
    \/ ExitWithStatus
    \/ DeliverSignal

SpecReap == Init /\ [][NextReap]_vars

-----------------------------------------------------------------------------
(* git-ai stats: calculate_working_stats *)

MaxFiles == 2                 \* files the working log touches

\* the paths of the files: a, aa, ...
WorkingPaths == {Repeat("a", k) : k \in 1..MaxFiles}

Absent == << "absent" >>

\* a file in the working directory: absent, empty (or unreadable), or some lines
WorkingContents ==
    {Absent, << >>, << "a", "a" >>, << NL, "a" >>, << "a", NL, "a" >>, << Wide, NL >>}

WorkingAttributions ==
    LET A(start, end, author_id) ==
            [start |-> start, end |-> end, author_id |-> author_id,
             prompt_hash |-> NoPrompt]
    IN  {<< >>,
         << A(0, 3, "human") >>,
         << A(0, 1, "human"), A(1, 3, "mock_ai:s1") >>,
         << A(0, 3, "mock_ai:s1") >>}

\* VirtualAttributions.attributions: per file touched, its character attributions
\* (with the content the working directory holds for it)
WorkingFiles ==
    UNION {[paths -> [content : WorkingContents, char_attrs : WorkingAttributions]] :
              paths \in SUBSET WorkingPaths}

\* WorkingStats::default()
DefaultWorkingStats ==
    [kind |-> "Ok", files_changed |-> 0, pure_human_lines |-> 0, mixed_lines |-> 0,
     pure_ai_lines |-> 0, total_lines |-> 0, by_file |-> << >>]

\* the four counters of FileStats
FileStats(fs) ==
    [pure_human_lines |-> fs.pure_human_lines, mixed_lines |-> fs.mixed_lines,
     pure_ai_lines |-> fs.pure_ai_lines, total_lines |-> fs.total_lines]

\* a file added to by_file without its total
AddFile_TotalLeftOut(stats, file_path, file_stats) ==
    [stats EXCEPT !.pure_human_lines = @ + file_stats.pure_human_lines,
                  !.mixed_lines = @ + file_stats.mixed_lines,
                  !.pure_ai_lines = @ + file_stats.pure_ai_lines,
                  !.by_file = (file_path :> FileStats(file_stats)) @@ @,
                  !.files_changed = @ + 1]

\* "Add to total": the end of the body of the loop
AddFile(stats, file_path, file_stats) ==
    [stats EXCEPT !.pure_human_lines = @ + file_stats.pure_human_lines,
                  !.mixed_lines = @ + file_stats.mixed_lines,
                  !.pure_ai_lines = @ + file_stats.pure_ai_lines,
                  !.total_lines = @ + file_stats.total_lines,
                  !.by_file = (file_path :> FileStats(file_stats)) @@ @,
                  !.files_changed = @ + 1]

\* the loop over the files, in whatever order the map yields them
RECURSIVE FoldFiles(_, _, _, _, _, _)
FoldFiles(paths, files, ignore_patterns, workdir_ok, overflow_checks, stats) ==
    IF stats = Panic \/ paths = {} THEN stats
    ELSE LET file_path == CHOOSE p \in paths : TRUE
             file == files[file_path]
             rest == paths \ {file_path}
         IN  IF \/ should_ignore_file(file_path, ignore_patterns)
                \/ ~workdir_ok
                \/ file.content \in {Absent, << >>}
             THEN FoldFiles(rest, files, ignore_patterns, workdir_ok, overflow_checks,
                            stats)
             ELSE LET file_stats == calculate_file_stats(file.content, file.char_attrs,
                                                         overflow_checks)
                  IN  FoldFiles(rest, files, ignore_patterns, workdir_ok,
                                overflow_checks,
                                IF file_stats = Panic THEN Panic
                                ELSE AddFile(stats, file_path, file_stats))

calculate_working_stats(files, ignore_patterns, va_ok, workdir_ok, overflow_checks) ==
    IF ~va_ok THEN [kind |-> "Err"]
    ELSE FoldFiles(DOMAIN files, files, ignore_patterns, workdir_ok, overflow_checks,
                   DefaultWorkingStats)

InitWorkingStats ==
    /\ InitWrapper
    /\ InitNoLock
    /\ InitNoFile
    /\ result = Pending
    /\ \E files \in WorkingFiles, ignore \in {<< >>, << Repeat("a", 2) >>},
          va_ok \in BOOLEAN, workdir_ok \in BOOLEAN :
          call = [fn |-> "calculate_working_stats", files |-> files,
                  ignore_patterns |-> ignore, va_ok |-> va_ok,
                  workdir_ok |-> workdir_ok]

CalculateWorkingStats ==
    /\ call.fn = "calculate_working_stats"
    /\ result = Pending
    /\ \E overflow_checks \in BOOLEAN :
          result' = calculate_working_stats(call.files, call.ignore_patterns,
                                            call.va_ok, call.workdir_ok,
                                            overflow_checks)
    /\ UNCHANGED << call, wrapperVars, attrVars, lockVars >>

SpecWorkingStats == InitWorkingStats /\ [][CalculateWorkingStats]_vars

----------------------------------------------------------------------------
(* Properties of the hook orchestrator *)

IsPrefix(s, t) == Len(s) <= Len(t) /\ \A k \in 1..Len(s) : s[k] = t[k]

Ran(phase) == \E k \in 1..Len(phases) : phases[k] = phase

\* the git child was spawned and reaped
GitRan == gitStatus.kind \in {"code", "signal"}

\* the git child could not be spawned or waited for
GitUnavailable == gitStatus.kind \in {"spawn_failed", "wait_failed"}

HookedOrder == << "pre", "spawn", "reaped", "post" >>

\* C1: in an invocation that runs hooks, the pre-command hook has ended before git
\* is spawned, git has been reaped before the post-command hook starts, and no
\* phase happens twice: the phases run so far are a prefix of pre, spawn, reaped,
\* post.
C1_PhaseOrder == path = "hooks" => IsPrefix(phases, HookedOrder)

C1_Witness == path = "hooks" /\ pc = "done" /\ phases = HookedOrder

\* C2: whenever the wrapper has terminated (and a git child could be spawned and
\* waited for), git has run and the wrapper ended the way git did: same exit
\* code, or the same signal.
C2_ExitFidelity ==
    (pc = "done" /\ ~GitUnavailable) => (GitRan /\ wrapperExit = gitStatus)

\* C3: when the pre-commit checkpoint returned an error of any kind, git commit
\* has still run by the time the wrapper terminates and the wrapper ended the way
\* git did.
C3_PreCommitErrorNotPropagated ==
    (pc = "done" /\ inv.command = "commit" /\ preOutcome \in {"bare", "error"}
        /\ ~GitUnavailable)
    => (GitRan /\ wrapperExit = gitStatus)

PreHookPanicked == preOutcome \in {"panic", "panic_head", "panic_checkpoint"}
PostHookPanicked == postOutcome = "panic"

\* C4: after a panic in a pre-command hook git still runs and the post-command
\* hooks are still dispatched; after a panic in a post-command hook the wrapper
\* still exits; in both cases it ends the way git did.
C4_PanicIsolated ==
    /\ (PreHookPanicked /\ pc = "done" /\ ~GitUnavailable) => Ran("post")
    /\ ((PreHookPanicked \/ PostHookPanicked) /\ pc = "done" /\ ~GitUnavailable)
            => (GitRan /\ wrapperExit = gitStatus)

\* What does hold of panics: one raised inside run_pre_command_hooks or
\* run_post_command_hooks is isolated as C4 says.
DispatchedPanicIsolated ==
    (path = "hooks" /\ (PreHookPanicked \/ PostHookPanicked) /\ pc = "done"
        /\ ~GitUnavailable)
    => (phases = HookedOrder /\ GitRan /\ wrapperExit = gitStatus)

\* C5: the post-commit hook emits a rewrite-log event and consumes the working log
\* only if git commit succeeded and the pre-commit hook returned true; in every
\* other case the rewrite log is as it was when the invocation started and the
\* working log is as the pre-hook left it.
C5_PostHookOnlyAfterSuccess ==
    (inv.command = "commit" /\ path = "hooks" /\ Ran("post"))
    => \/ Success(gitStatus) /\ pre_commit_hook_result = "Some(true)"
       \/ rewriteLog = hist.rl /\ workingLog = hist.wlPre

\* C6: in a dry-run commit both hooks are no-ops at every point of the
\* invocation: no checkpoint is added to the working log, no HEAD is captured, no
\* event reaches the rewrite log and no authorship log is written.
C6_DryRunNoOp ==
    (inv.command = "commit" /\ inv.dry_run /\ path = "hooks")
    => /\ workingLog = hist.wl
       /\ pre_command_base_commit = NoCommit
       /\ rewriteLog = hist.rl
       /\ pre_commit_hook_result # "Some(true)"

\* a dry run that ended with git succeeding, in a repository that has a HEAD to
\* capture and AI checkpoints that a Human checkpoint would follow
C6_Witness ==
    /\ inv.command = "commit" /\ inv.dry_run /\ path = "hooks"
    /\ pc = "done" /\ phases = HookedOrder /\ Success(gitStatus)
    /\ head # NoCommit
    /\ HasAI(workingLog)

\* git commit created a commit during this invocation
CommitCreated == head # hist.head

PostCommitHookActed ==
    /\ Ran("post")
    /\ ~inv.dry_run
    /\ Success(gitStatus)
    /\ pre_commit_hook_result # "Some(false)"
    /\ postOutcome = "ok"

Finalized == pc \in {"exit", "done"} /\ Len(rewriteLog) > Len(hist.rl)

\* C11: once the post-commit hook of a successful commit has finalized, the working
\* log is empty, its Initial checkpoints included, so that the next commit's
\* attestation is built from checkpoints created after this commit only
C11_WorkingLogConsumed == Finalized => workingLog = << >>

-----------------------------------------------------------------------------
(* Properties of the authorship log *)

Committed == session = "committed"

EntryLines(e) == UNION {RangeLines(e.line_ranges[k]) : k \in 1..Len(e.line_ranges)}

AttestedLines == UNION {EntryLines(e) : e \in attestation}

\* the (author_id, prompt_hash) of the entries that list line l
CreditedTo(l) ==
    {<< e.author_id, e.prompt_hash >> : e \in {e \in attestation : l \in EntryLines(e)}}

H1 == << BaseSession.agent_id, BaseSession.prompt_hash >>
H2 == << NewSession.agent_id, NewSession.prompt_hash >>

\* the checkpoint changes line n and no other line
EditsLine(cp, n) ==
    LET x == Lines(cp.before_content)
        y == Lines(cp.after_content)
    IN  /\ Len(x) = Len(y)
        /\ n \in 1..Len(x)
        /\ x[n] # y[n]
        /\ \A m \in 1..Len(x) : m # n => x[m] = y[m]

\* the checkpoint adds one line, which becomes line j, and changes no other line
InsertsLine(cp, j) ==
    LET x == Lines(cp.before_content)
        y == Lines(cp.after_content)
    IN  /\ Len(y) = Len(x) + 1
        /\ j \in 1..Len(y)
        /\ y = SubSeq(x, 1, j - 1) \o << y[j] >> \o SubSeq(x, j, Len(x))

\* scenario S3: a file written by session H1 and committed, line n edited by
\* session H2, then a line inserted by hand as line j, before it, then committed
InsertThenEdit(n, j) ==
    /\ Committed
    /\ base_content # << >>
    /\ base_attr = Whole(base_content, BaseSession.agent_id, BaseSession.prompt_hash)
    /\ Len(finalized) = 3
    /\ finalized[2].kind = "AIAgent"
    /\ finalized[3].kind = "Human"
    /\ EditsLine(finalized[2], n)
    /\ InsertsLine(finalized[3], j)
    /\ j <= n

\* C7: in scenario S3 the attestation credits the edited line, now line n + 1, to
\* H2 and never to H1, and no AI session is credited with the inserted line j
C7_EditCreditedToItsSession ==
    \A n \in 1..MaxLen, j \in 1..MaxLen :
        InsertThenEdit(n, j) =>
            /\ H2 \in CreditedTo(n + 1)
            /\ H1 \notin CreditedTo(n + 1)
            /\ \A tag \in CreditedTo(j) : ~IsAgentTag(tag)

\* C8: in scenario S3 the AI session has exactly one entry, its line_ranges are the
\* single range n + 1, and the session of the base commit has no entry
C8_OnlyChangedLinesListed ==
    \A n \in 1..MaxLen, j \in 1..MaxLen :
        InsertThenEdit(n, j) =>
            /\ Cardinality({e \in attestation : e.author_id = NewSession.agent_id}) = 1
            /\ \A e \in attestation :
                  e.author_id = NewSession.agent_id => e.line_ranges = << Single(n + 1) >>
            /\ \A e \in attestation : e.author_id # BaseSession.agent_id

HasAgentCharacter(l) ==
    LET b == line_boundaries(content)[l]
    IN  \E pos \in b[1]..(b[2] - 1) : IsAgentTag(TagAt(char_attr, pos))

S3_BothSessionsCredited ==
    /\ InsertThenEdit(1, 1)
    /\ base_content = << "a" >>
    /\ finalized[2].after_content = << "a", "b" >>
    /\ content = << "b", NL, "a", "b" >>
    /\ CreditedTo(2) = {H1, H2}

-----------------------------------------------------------------------------
(* Properties of calculate_file_stats *)

StatsDone == call.fn = "calculate_file_stats" /\ result # Pending

\* C12: a line is mixed exactly when its authors include "human" and an AI author,
\* pure_human when they are exactly {"human"}, pure_ai when they are not empty and
\* do not include "human"; the counters count these lines
C12_Categories ==
    (StatsDone /\ result.kind = "Ok") =>
        LET authors == result.line_authors
            IsMixed(l) == "human" \in authors[l] /\ authors[l] \ {"human"} # {}
            IsHuman(l) == authors[l] = {"human"}
            IsAI(l) == authors[l] # {} /\ "human" \notin authors[l]
        IN  /\ \A l \in DOMAIN authors :
                  /\ result.category[l] = "mixed" <=> IsMixed(l)
                  /\ IsHuman(l) => result.category[l] = "pure_human"
                  /\ IsAI(l) => result.category[l] = "pure_ai"
            /\ result.mixed_lines = Cardinality({l \in DOMAIN authors : IsMixed(l)})
            /\ result.pure_human_lines = Cardinality({l \in DOMAIN authors : IsHuman(l)})
            /\ result.pure_ai_lines = Cardinality({l \in DOMAIN authors : IsAI(l)})

\* a file with a mixed line and a line of two AI sessions
C12_Witness ==
    /\ StatsDone
    /\ result.kind = "Ok"
    /\ \E l \in DOMAIN result.line_authors :
          result.line_authors[l] = {"human", "mock_ai:s1"} /\ result.category[l] = "mixed"
    /\ \E l \in DOMAIN result.line_authors :
          result.line_authors[l] = {"mock_ai:s1", "mock_ai:s2"}
          /\ result.category[l] = "pure_ai"

\* where the lines of c start, in characters: at 0 and after each "\n"
LineStarts(c) == {p \in 0..(Len(c) - 1) : p = 0 \/ c[p] = NL}

\* where the line that starts at p ends: before its "\n" or "\r\n", or with c
LineEnd(c, p) ==
    LET after == {q \in p..(Len(c) - 1) : c[q + 1] = NL}
    IN  IF after = {} THEN Len(c)
        ELSE LET q == CHOOSE q \in after : \A r \in after : q <= r
             IN  IF q > p /\ c[q] = CR THEN q - 1 ELSE q

\* the l-th line start
NthStart(c, l) ==
    CHOOSE p \in LineStarts(c) : Cardinality({q \in LineStarts(c) : q < p}) = l - 1

\* the authors whose interval [start, end) holds a character of line l
AuthorsOnLine(c, attributions, l) ==
    LET from == NthStart(c, l)
        to == LineEnd(c, from)
    IN  {attributions[k].author_id :
            k \in {k \in DOMAIN attributions :
                      \E pos \in from..(to - 1) :
                          attributions[k].start <= pos /\ pos < attributions[k].end}}

\* C13: for every content and attribution list calculate_file_stats gives each
\* line exactly the authors whose interval intersects the characters of the line,
\* the line terminator not counted
C13_LineAuthors ==
    StatsDone =>
        /\ result.kind = "Ok"
        /\ DOMAIN result.line_authors = 1..Cardinality(LineStarts(call.content))
        /\ \A l \in DOMAIN result.line_authors :
              result.line_authors[l] = AuthorsOnLine(call.content, call.attributions, l)

-----------------------------------------------------------------------------
(* Properties of the ignore patterns *)

IgnoreDone == call.fn = "should_ignore_file" /\ result # Pending

Stars(pattern) == Cardinality({i \in DOMAIN pattern : pattern[i] = Star})

\* C14: with the single pattern prefix*suffix (one "*", prefix and suffix not
\* empty) should_ignore_file is true exactly for the paths that start with prefix
\* and end with suffix, or that contain the text of the pattern
C14_PrefixSuffix ==
    (IgnoreDone /\ Len(call.ignore_patterns) = 1) =>
        LET pattern == call.ignore_patterns[1]
            parts == split(pattern, Star)
        IN  (Stars(pattern) = 1 /\ parts[1] # << >> /\ parts[2] # << >>) =>
                (result.value <=>
                    \/ starts_with(call.file_path, parts[1])
                       /\ ends_with(call.file_path, parts[2])
                    \/ contains(call.file_path, pattern))

\* C15: with a pattern *middle* (middle not empty and without "*")
\* should_ignore_file is true for every path that contains middle
C15_Middle ==
    IgnoreDone =>
        \A k \in DOMAIN call.ignore_patterns :
            LET pattern == call.ignore_patterns[k]
                middle == SubSeq(pattern, 2, Len(pattern) - 1)
            IN  (/\ Len(pattern) >= 3
                 /\ Head(pattern) = Star
                 /\ pattern[Len(pattern)] = Star
                 /\ Stars(pattern) = 2
                 /\ contains(call.file_path, middle)) => result.value

-----------------------------------------------------------------------------
(* Properties of the hook orchestrator: completion and bare repositories *)

\* C16: in a shell-completion context handle_git takes the completion branch
\* whatever the arguments and the repository are, runs no pre-hook and no
\* post-hook, leaves the working log and the rewrite log alone, runs git and ends
\* with git's status
C16_CompletionBypass ==
    inv.completion =>
        /\ path = "completion"
        /\ \A k \in DOMAIN phases : phases[k] \in {"spawn", "reaped"}
        /\ preOutcome = "none" /\ postOutcome = "none"
        /\ pre_commit_hook_result = "None"
        /\ rewriteLog = hist.rl /\ workingLog = hist.wl
        /\ pc \in {"git", "spawned", "stored", "wait", "exit", "done"}
        /\ (pc = "done" /\ GitRan) => wrapperExit = gitStatus

\* a commit made from a completion context in a repository whose hooks are enabled
C16_Witness ==
    /\ inv.completion
    /\ inv.command = "commit" /\ inv.has_repo /\ ~inv.skip_hooks /\ ~inv.is_help
    /\ pc = "done"
    /\ phases = << "spawn", "reaped" >>
    /\ head # hist.head
    /\ wrapperExit = Exited(0)

\* C18: when the pre-commit checkpoint fails because the repository is bare, the
\* pre-commit hook returns false and goes on to git, the post-commit hook emits no
\* event and leaves the working log alone, and the wrapper ends with git's status
C18_BareRepositorySkips ==
    preOutcome = "bare" =>
        /\ pre_commit_hook_result = "Some(false)"
        /\ pc \in {"git", "spawned", "stored", "wait", "post", "exit", "done"}
        /\ pc = "done" => gitStatus # NoStatus
        /\ rewriteLog = hist.rl
        /\ workingLog = hist.wl
            /\ (pc = "done" /\ GitRan) => wrapperExit = gitStatus

\* git commit succeeds in a bare repository and the post-commit hook has run
C18_Witness ==
    /\ preOutcome = "bare"
    /\ pc = "done"
    /\ phases = << "pre", "spawn", "reaped", "post" >>
    /\ postOutcome = "ok"
    /\ Success(gitStatus)
    /\ head # hist.head
    /\ wrapperExit = Exited(0)

-----------------------------------------------------------------------------
(* Properties of get_commit_default_author *)

AuthorDone == call.fn = "get_commit_default_author" /\ result # Pending

\* the --author argument is there and not blank
AuthorArgGiven == NotBlank(extract_author_from_args(call.args))

\* the --author argument resolves to an author that is not blank
AuthorArgResolves ==
    extract_author_from_args(call.args) # None
    /\ call.resolved.ok /\ NotBlank(call.resolved.v)

NameSources == << call.env.GIT_AUTHOR_NAME, call.config.user_name >>
EmailSources == << call.env.GIT_AUTHOR_EMAIL, call.config.user_email >>

\* field comes from sources[k], and no source before it has a value
TakenFrom(field, sources, k) ==
    /\ field = Some(Trim(sources[k][1]))
    /\ \A j \in 1..(k - 1) : ~NotBlank(sources[j])

\* the name and the email below the --author argument: each is the value of the
\* first of GIT_AUTHOR_*, user.*, EMAIL that has one
FieldPrecedence ==
    /\ \/ \E k \in 1..2 : NotBlank(NameSources[k])
                          /\ TakenFrom(result.author_name, NameSources, k)
       \/ /\ \A k \in 1..2 : ~NotBlank(NameSources[k])
          /\ result.author_name # None =>
                NotBlank(call.env.EMAIL)
                /\ result.author_name = NamePart(call.env.EMAIL[1])
          /\ result.author_name = None =>
                (~NotBlank(call.env.EMAIL) \/ NamePart(call.env.EMAIL[1]) = None)
    /\ \/ \E k \in 1..2 : NotBlank(EmailSources[k])
                          /\ TakenFrom(result.author_email, EmailSources, k)
       \/ /\ \A k \in 1..2 : ~NotBlank(EmailSources[k])
          /\ IF NotBlank(call.env.EMAIL)
             THEN result.author_email = Some(Trim(call.env.EMAIL[1]))
             ELSE result.author_email = None
    /\ result.value = << "unknown" >> <=>
          (result.author_name = None /\ result.author_email = None)

C17_ArgWins ==
    /\ AuthorDone
    /\ result.from_arg
    /\ NotBlank(call.env.GIT_AUTHOR_NAME) /\ NotBlank(call.config.user_email)
    /\ result.value = << "Resolved", Blank, "<r@host>" >>

-----------------------------------------------------------------------------
(* Properties of signal forwarding *)

\* the child is spawned and not reaped
ChildRuns(p) == p \in {"spawned", "stored", "wait"}

\* C19: in a non-interactive invocation every signal delivered between the spawn
\* of the child and its reaping is forwarded to the child's process group; in an
\* interactive invocation CHILD_PGID stays 0 and no handler is installed
C19_SignalsForwarded ==
    /\ ~inv.interactive =>
          \A k \in DOMAIN signals :
              ChildRuns(signals[k].at) => signals[k].action = "forwarded"
    /\ inv.interactive =>
          /\ child_pgid = 0
          /\ sigDisp = DefaultDisp
          /\ pc \notin {"spawned", "stored"}

\* the wrapper was ended by the default action of a signal that arrived at p
KilledAt(p) ==
    /\ pc = "done"
    /\ signals # << >>
    /\ signals[Len(signals)].action = "default"
    /\ signals[Len(signals)].at = p

\* proxy_to_git has returned, or has ended the process after the wait
LeftProxyToGit ==
    \/ pc \in {"post", "clonepost", "exit"}
    \/ pc = "done" /\ gitStatus # NoStatus /\ \A p \in {"spawned", "stored"} : ~KilledAt(p)

C20_WitnessReaped ==
    /\ ~inv.interactive
    /\ pc = "exit"
    /\ GitRan
    /\ \E k \in DOMAIN signals : signals[k].at = "wait" /\ signals[k].action = "forwarded"
    /\ child_pgid = 0
    /\ sigDisp = DefaultDisp

-----------------------------------------------------------------------------
(* Properties of the push, fetch, pull and stash hooks *)

\* C21: the wrapper never exits while a worker launched by the pre-hook of push,
\* fetch or pull is still running
C21_WorkerJoinedBeforeExit == pc = "done" => worker # "running"

\* the handle of a launched worker is in the context until the post-hook joins it
C21_HandleKept ==
    (worker \in {"running", "finished"}) =>
        IF inv.command = "push" THEN push_authorship_handle = "Some(handle)"
        ELSE fetch_authorship_handle = "Some(handle)"

StashHooked == inv.command = "stash" /\ path = "hooks"

PastPreHooks == pc \notin {"idle", "pre"}
PastPostHooks == "post" \in {phases[k] : k \in DOMAIN phases}

\* C22: in a hooked stash invocation the stash pre-hook and post-hook run exactly
\* when rewrite_stash is enabled; with the flag disabled git runs and the rewrite
\* log and the working log stay as they were
C22_StashHooksBehindFlag ==
    StashHooked =>
        /\ PastPreHooks => (preOutcome # "disabled" <=> inv.rewrite_stash)
        /\ PastPostHooks => (postOutcome # "disabled" <=> inv.rewrite_stash)
        /\ ~inv.rewrite_stash =>
              /\ rewriteLog = hist.rl
              /\ workingLog = hist.wl
              /\ pc \in {"pre", "git", "spawned", "stored", "wait", "post", "exit", "done"}
              /\ (pc = "done" /\ GitRan) => wrapperExit = gitStatus

\* git stash succeeded with the flag disabled
C22_Witness ==
    /\ StashHooked
    /\ ~inv.rewrite_stash
    /\ pc = "done"
    /\ phases = << "pre", "spawn", "reaped", "post" >>
    /\ preOutcome = "disabled" /\ postOutcome = "disabled"
    /\ Success(gitStatus)
    /\ wrapperExit = Exited(0)

\* git stash succeeded with the flag enabled: the post-hook has emitted an event
C22_WitnessEnabled ==
    /\ StashHooked
    /\ inv.rewrite_stash
    /\ pc = "done"
    /\ Len(rewriteLog) = Len(hist.rl) + 1
    /\ rewriteLog[Len(rewriteLog)].type \in StashKinds

-----------------------------------------------------------------------------
(* Properties of the checkpoint command *)

CheckpointDone == call.fn = "handle_checkpoint" /\ result # Pending

\* the positions at which the argument loop reads --hook-input as the flag
RECURSIVE HookInputFlags(_, _)
HookInputFlags(args, i) ==
    IF i > Len(args) THEN {}
    ELSE IF args[i] = "--hook-input" THEN {i} \cup HookInputFlags(args, i + 2)
    ELSE HookInputFlags(args, i + 1)

\* the errors of the checkpoint command
CheckpointErrors ==
    { e \in {"not allowed", "hook input", "preset", "repository", "checkpoint"} :
        \/ e = "not allowed" /\ ~call.allowed_repository
        \/ e = "hook input" /\
              \E i \in HookInputFlags(call.args, 1) :
                 \/ i = Len(call.args)
                 \/ i < Len(call.args) /\ call.args[i + 1] = Blank
                 \/ i < Len(call.args) /\ call.args[i + 1] = "stdin"
                    /\ call.stdin # "{json}"
        \/ e = "preset" /\ call.args # << >> /\ call.args[1] = "claude" /\ ~call.preset_ok
        \/ e = "repository" /\ ~call.repo_found
        \/ e = "checkpoint" /\ ~call.run_ok }

\* C23: the checkpoint command ends with status 0 when nothing fails and with
\* status 1 when the repository is not allowed, the --hook-input value is missing
\* or empty, the preset fails, no repository is found or the checkpoint run fails
C23_CheckpointExitStatus ==
    CheckpointDone =>
        /\ CheckpointErrors = {} => (result.code = 0 /\ result.at = "return")
        /\ CheckpointErrors # {} => (result.code = 1 /\ result.at \in CheckpointErrors)

\* a checkpoint of a preset succeeds with a hook input read from stdin
C23_Witness ==
    /\ CheckpointDone
    /\ call.args = << "claude", "--hook-input", "stdin" >>
    /\ call.stdin = "{json}"
    /\ result.code = 0

-----------------------------------------------------------------------------
(* Properties of the checkpoint store *)

ChainOk(log) ==
    \A k \in 2..Len(log) : log[k].before_content = log[k - 1].after_content

\* C24 (P4, chain integrity): whatever checkpoints were created, by the commit
\* hook or by the checkpoint command, with the file among their paths or not,
\* each checkpoint of the file has as before_content the after_content of the
\* checkpoint before it
C24_ChainIntegrity == ChainOk(checkpoints)

\* an AI checkpoint and a pre-commit Human checkpoint follow the Initial one, each
\* recording a change, the file having been written after the AI checkpoint
C24_Witness ==
    /\ call.fn = "pre_commit"
    /\ Len(checkpoints) = 3
    /\ checkpoints[2].kind = "AIAgent"
    /\ checkpoints[3].kind = "Human"
    /\ checkpoints[2].before_content # checkpoints[2].after_content
    /\ checkpoints[3].before_content # checkpoints[3].after_content
    /\ checkpoints[3].after_content # base_content

-----------------------------------------------------------------------------
(* Properties of diff_attribute *)

\* attr covers [0, n) without gap or overlap, adjacent attributions differing in
\* (author_id, prompt_hash)
CoversExactly(attr, n) ==
    /\ attr = << >> => n = 0
    /\ attr # << >> => attr[1].start = 0 /\ attr[Len(attr)].end = n
    /\ \A k \in 1..Len(attr) : attr[k].start < attr[k].end
    /\ \A k \in 1..(Len(attr) - 1) :
          /\ attr[k].end = attr[k + 1].start
          /\ << attr[k].author_id, attr[k].prompt_hash >>
                # << attr[k + 1].author_id, attr[k + 1].prompt_hash >>

\* C25: at a commit, the attributions of the file cover [0, len(content)) exactly,
\* with no gap and no overlap and no two adjacent attributions of one
\* (author_id, prompt_hash), and so do the attributions after each earlier
\* diff_attribute step of the replay of the working log, for the content of that
\* checkpoint
C25_AttributionsCoverContent ==
    session = "committed" =>
        /\ CoversExactly(char_attr, Len(content))
        /\ \A k \in 1..(Len(finalized) - 1) :
              CoversExactly(virtualize(SubSeq(finalized, 1, k), base_exists, base_attr),
                            Len(finalized[k].after_content))

\* a commit whose replay took an AI step and a Human step and left attributions
\* of three authors
C25_Witness ==
    /\ session = "committed"
    /\ Len(finalized) = 3
    /\ Len(char_attr) >= 3
    /\ \E i, j, k \in 1..Len(char_attr) :
          /\ char_attr[i].author_id = "human"
          /\ char_attr[j].prompt_hash = "H1"
          /\ char_attr[k].prompt_hash = "H2"

DiffDone == call.fn = "diff_attribute" /\ result # Pending

\* the (author_id, prompt_hash) a list gives to the character at offset pos
AuthorOf(attr, pos) ==
    LET covering == {k \in 1..Len(attr) : attr[k].start <= pos /\ pos < attr[k].end}
    IN  IF Cardinality(covering) = 1
        THEN LET k == CHOOSE k \in covering : TRUE
             IN  << attr[k].author_id, attr[k].prompt_hash >>
        ELSE NoTag

\* next is prev with n characters inserted at offset pos
InsertedAt(prev, next, pos, n) ==
    /\ Len(next) = Len(prev) + n
    /\ SubSeq(next, 1, pos) = SubSeq(prev, 1, pos)
    /\ SubSeq(next, pos + n + 1, Len(next)) = SubSeq(prev, pos + 1, Len(prev))

SingleInsertion ==
    /\ Len(call.next_content) > Len(call.prev_content)
    /\ \E pos \in 0..Len(call.prev_content) :
          InsertedAt(call.prev_content, call.next_content, pos,
                     Len(call.next_content) - Len(call.prev_content))

\* C26: when next_content is prev_content with a single insertion, the new author
\* is given the inserted characters and only them, and every other character
\* keeps the (author_id, prompt_hash) it had, at its new offset; where the text
\* allows several positions for the insertion, this holds for one of them
C26_InsertionOwnedByNewAuthor ==
    (DiffDone /\ SingleInsertion) =>
        LET prev == call.prev_content
            next == call.next_content
            n == Len(next) - Len(prev)
        IN  \E pos \in 0..Len(prev) :
               /\ InsertedAt(prev, next, pos, n)
               /\ \A i \in 0..(Len(next) - 1) :
                     AuthorOf(result.attributions, i) =
                        IF i < pos THEN AuthorOf(call.prev_attr, i)
                        ELSE IF i < pos + n
                             THEN << call.new_author_id, call.new_prompt_hash >>
                             ELSE AuthorOf(call.prev_attr, i - n)

\* a character inserted by session H2 inside text of session H1, at the only
\* position the text allows
C26_Witness ==
    /\ DiffDone
    /\ call.prev_content = << "a", "a" >>
    /\ call.next_content = << "a", "b", "a" >>
    /\ Len(call.prev_attr) = 1
    /\ call.prev_attr[1].prompt_hash = "H1"
    /\ call.new_prompt_hash = "H2"
    /\ Len(result.attributions) = 3
    /\ result.attributions[2] = [start |-> 1, end |-> 2,
                                 author_id |-> NewSession.agent_id,
                                 prompt_hash |-> "H2"]

\* C27: a zero-length edit changes nothing: diff_attribute(c, c, attr, author,
\* hash) is attr, for every content, every attribution list of the data model
\* for it, every author and every prompt hash
C27_ZeroLengthEdit ==
    (DiffDone /\ call.prev_content = call.next_content) =>
        result.attributions = call.prev_attr

\* a zero-length edit of a content with attributions of three authors
C27_Witness ==
    /\ DiffDone
    /\ call.prev_content = call.next_content
    /\ Len(call.prev_attr) = 3
    /\ result.attributions = call.prev_attr
    /\ \E k \in 1..3 : call.prev_attr[k].prompt_hash = call.new_prompt_hash
                       /\ call.prev_attr[k].author_id = call.new_author_id

-----------------------------------------------------------------------------
(* Properties of the pre-commit checkpoint and of the kinds of checkpoints *)

\* the content the last checkpoint before the operation recorded
ContentAtLastCheckpoint ==
    IF call.log = << >> THEN base_content
    ELSE call.log[Len(call.log)].after_content

C28_WitnessAppended ==
    /\ call.fn = "pre_commit"
    /\ Len(call.log) = 2
    /\ call.log[2].kind = "AIAgent"
    /\ call.log[2].after_content = content
    /\ Len(checkpoints) = 3

\* C29: the checkpoints of a file follow Empty -> Initial -> (Human|AIAgent)*: a
\* log that is not empty starts with an Initial checkpoint whose before_content
\* is empty, every later checkpoint is Human or AIAgent, and after a reset the
\* log is empty
C29_CheckpointKinds ==
    /\ checkpoints # << >> =>
          /\ checkpoints[1].kind = "Initial"
          /\ checkpoints[1].before_content = << >>
          /\ \A k \in 2..Len(checkpoints) : checkpoints[k].kind \in {"Human", "AIAgent"}
    /\ call.fn = "reset" => checkpoints = << >>
    /\ (call.fn \in {"checkpoint", "pre_commit"} /\ call.log # << >>) =>
          /\ Len(checkpoints) <= Len(call.log) + 1
          /\ IsPrefix(call.log, checkpoints)

\* the first checkpoint of a file whose log was empty: the Initial snapshot of a
\* content that is not empty, then the AI checkpoint of the new content
C29_Witness ==
    /\ call.fn = "checkpoint"
    /\ call.log = << >>
    /\ Len(checkpoints) = 2
    /\ checkpoints[1].kind = "Initial"
    /\ checkpoints[1].after_content = base_content
    /\ base_content # << >>
    /\ checkpoints[2].kind = "AIAgent"
    /\ checkpoints[2].after_content # base_content

\* a reset has emptied a log that held checkpoints
C29_WitnessReset ==
    /\ call.fn = "reset"
    /\ Len(call.log) >= 3
    /\ checkpoints = << >>

-----------------------------------------------------------------------------
(* Properties of concurrent checkpoint creation *)

InCreate(w) == creator[w].pc \in {"locked", "read", "appended"}

\* C30: with several wrappers creating checkpoints in one repository, at most one
\* of them is inside checkpoint creation at a time and it holds the lock, and
\* the sequence_no of the checkpoints in the working log increases strictly in
\* append order, so none is repeated
C30_CreationSerialized ==
    /\ \A v, w \in Wrappers : (InCreate(v) /\ InCreate(w)) => v = w
    /\ \A w \in Wrappers : InCreate(w) => repo_lock = HeldBy(w)
    /\ \A i, j \in 1..Len(sequence_log) :
          i < j => sequence_log[i].sequence_no < sequence_log[j].sequence_no

\* both wrappers have appended checkpoints, and one is appending again while the
\* other waits for the lock
C30_Witness ==
    /\ Len(sequence_log) >= 3
    /\ \A w \in Wrappers : \E k \in 1..Len(sequence_log) : sequence_log[k].by = w
    /\ \E v, w \in Wrappers : creator[v].pc = "appended" /\ creator[w].pc = "waiting"

-----------------------------------------------------------------------------
(* Properties of the authorship logs and of the rewrite log *)

LogsOf(c) == {a \in authorship : a.commit = c}

\* C31: an authorship log, once written for a commit id, is not modified: every
\* write is for a commit id that has no log yet, so each commit id has one log
\* at most, and the amend of a commit that has a log leaves that log stored
\* under the old id beside the log of the new id
C31_AuthorshipLogImmutable ==
    /\ \A a, b \in authorship : a.commit = b.commit => a = b
    /\ \A a \in authorship : a.commit # NoCommit
    /\ \A k \in 1..Len(rewriteLog) :
          /\ LogsOf(rewriteLog[k].new) # {}
          /\ rewriteLog[k].old # rewriteLog[k].new
          /\ \A j \in 1..(k - 1) : rewriteLog[j].new # rewriteLog[k].new

\* a commit with a log was amended: the old id keeps its log, the new id has
\* another one
C31_Witness ==
    /\ \E k \in 1..Len(rewriteLog) :
          /\ rewriteLog[k].type = "CommitAmend"
          /\ \E a \in LogsOf(rewriteLog[k].old), b \in LogsOf(rewriteLog[k].new) :
                a.log # b.log /\ a.log # << >>

\* C32: the rewrite log is append-only: at every moment of an invocation, the
\* rewrite log the invocation found is a prefix of the rewrite log, whatever
\* invocations came before; no event is removed, reordered or rewritten
C32_RewriteLogAppendOnly ==
    pc # "idle" => IsPrefix(hist.rl, rewriteLog)

\* an invocation that found events in the rewrite log has appended its own
C32_Witness ==
    /\ pc = "done"
    /\ hist.rl # << >>
    /\ Len(rewriteLog) = Len(hist.rl) + 1
    /\ rewriteLog[Len(rewriteLog)] # rewriteLog[1]

-----------------------------------------------------------------------------
(* Properties of the amended commit *)

\* the working log as it was before the pre-commit checkpoint of the commit that
\* consumed log
LogBeforeCommit(log) ==
    IF log = << >> \/ log[Len(log)].kind # "Human" THEN log
    ELSE IF Len(log) = 2 THEN << >>
    ELSE SubSeq(log, 1, Len(log) - 1)

\* the content on disk when that working log was left
ContentBeforeCommit(log, committed) ==
    IF log = << >> \/ log[Len(log)].kind # "Human" THEN committed
    ELSE log[Len(log)].before_content

\* the attestation of a commit of next made from that working state
DirectAttestation(log, before, next) ==
    LET consumed == PreCommitCheckpoint(log, before, next)
    IN  IF consumed = << >> THEN {}
        ELSE finalize(next, virtualize(consumed, base_exists, base_attr),
                      ModifiedLines(base_content, next))

\* C33 (P6 Amend equivalence): committing A and then amending to A' yields the
\* attestation that committing A' directly from the working state before A yields
C33_AmendEquivalence ==
    [][AmendFile =>
          attestation' = DirectAttestation(LogBeforeCommit(finalized),
                                           ContentBeforeCommit(finalized, content),
                                           content')]_vars

-----------------------------------------------------------------------------
(* Properties of the branches of handle_git *)

\* the invocation has left handle_git's choice of a branch; in a shell-completion
\* context no argument is parsed and no repository is looked up
Dispatched == pc # "idle" /\ ~inv.completion

\* not a help request, a repository was found and the configuration allows it
HookCondition == ~inv.is_help /\ inv.has_repo /\ ~inv.skip_hooks

PlainOrder == << "spawn", "reaped" >>

\* git is run once, no hook runs, the working log and the rewrite log stay
NoHookRun ==
    /\ IsPrefix(phases, PlainOrder)
    /\ (pc = "done" /\ ~GitUnavailable) => (phases = PlainOrder /\ GitRan)
    /\ preOutcome = "none" /\ postOutcome = "none"
    /\ pre_commit_hook_result = "None"
    /\ workingLog = hist.wl
    /\ rewriteLog = hist.rl

\* C34 as stated: the pre-hook, git, post-hook sequence is run exactly when the
\* invocation is not a help request, a repository was found and the repository
\* is allowed; in every other case that is not a clone git is run once, no hook
\* runs and the working log and the rewrite log stay as they were
C34_HookedIffAllowed ==
    Dispatched =>
        /\ path = "hooks" <=> HookCondition
        /\ (path # "hooks" /\ inv.command # "clone") => NoHookRun

\* C34, amended: the sequence is run exactly when, besides, the command is not a
\* clone the clone branch takes first
C34_HookedIffAllowedNotClone ==
    Dispatched =>
        /\ path = "hooks" <=> (HookCondition /\ inv.command # "clone")
        /\ path = "hooks" => (phases # << >> => phases[1] = "pre")
        /\ (path # "hooks" /\ inv.command # "clone") => NoHookRun

\* git commit in a repository the configuration excludes: a commit is made, with
\* checkpoints in the working log and events in the rewrite log left untouched
C34_Witness ==
    /\ Dispatched /\ pc = "done"
    /\ inv.command = "commit" /\ inv.has_repo /\ ~inv.is_help /\ inv.skip_hooks
    /\ path = "plain" /\ phases = PlainOrder
    /\ head # hist.head
    /\ workingLog # << >> /\ rewriteLog # << >>

\* git clone run inside an allowed repository: the clone branch, not the hooked one
C34_WitnessClone ==
    /\ Dispatched /\ pc = "done"
    /\ inv.command = "clone" /\ HookCondition
    /\ path = "clone"

\* a clone that is not a help request, the repository allowed
AllowedClone == Dispatched /\ inv.command = "clone" /\ ~inv.is_help /\ ~inv.skip_hooks

\* the clone branch up to the post-clone hook: no pre-hook, git clone run once,
\* the post-clone hook only once git clone was reaped, no generic hook
CloneOrder ==
    /\ path = "clone"
    /\ preOutcome = "none" /\ pre_commit_hook_result = "None"
    /\ IsPrefix(phases, PlainOrder)
    /\ postOutcome # "none" => (GitRan /\ phases = PlainOrder)
    /\ (pc = "done" /\ ~GitUnavailable) => (GitRan /\ postOutcome # "none")

\* C35: for an allowed clone no pre-hook runs, git clone is run first and once,
\* the post-clone hook runs only after git clone has exited, with its status, and
\* the wrapper then ends the way git clone did, the generic hooks never run
C35_CloneBranch ==
    AllowedClone =>
        /\ CloneOrder
        /\ (pc = "done" /\ ~GitUnavailable) => wrapperExit = gitStatus

\* What does hold of the clone branch: its order, and the exit status whenever
\* the post-clone hook returns.
CloneBranchUnlessPanic ==
    AllowedClone =>
        /\ CloneOrder
        /\ (pc = "done" /\ ~GitUnavailable /\ postOutcome = "ok") => wrapperExit = gitStatus

-----------------------------------------------------------------------------
(* Properties of the arguments of git-ai stats *)

StatsArgsDone == call.fn = "handle_stats" /\ result # Pending

IsFlag(arg) == starts_with(arg, "--")

\* the arguments that follow args[k] up to the next flag
Following(args, k) ==
    LET e == CHOOSE e \in k..Len(args) :
                 /\ \A j \in (k + 1)..e : ~IsFlag(args[j])
                 /\ e = Len(args) \/ IsFlag(args[e + 1])
    IN  SubSeq(args, k + 1, e)

\* the arguments that follow each --ignore from args[k] on, in order
RECURSIVE FollowingIgnore(_, _)
FollowingIgnore(args, k) ==
    IF k > Len(args) THEN << >>
    ELSE (IF args[k] = "--ignore" THEN Following(args, k) ELSE << >>)
         \o FollowingIgnore(args, k + 1)

\* C36: the ignore patterns handle_stats asks the statistics with are all the
\* arguments that follow a --ignore up to the next flag, and it exits at --ignore
\* only if a --ignore is followed by no pattern argument at all
C36_IgnoreCollectsUpToFlag ==
    StatsArgsDone =>
        /\ result.kind = "return" =>
              result.ignore_patterns = FollowingIgnore(call.args, 1)
        /\ result.at = "ignore" =>
              (result.code = 1
               /\ \E k \in DOMAIN call.args :
                     call.args[k] = "--ignore" /\ Following(call.args, k) = << >>)

\* What does hold: the claim, of the argument lists whose --ignore come after the
\* commit and that name no range.
IgnoreAfterCommit ==
    (/\ StatsArgsDone
     /\ call.args # << >>
     /\ ~IsFlag(call.args[1])
     /\ \A k \in DOMAIN call.args : ~contains(call.args[k], ".."))
    => /\ result.kind = "return" =>
             result.ignore_patterns = FollowingIgnore(call.args, 1)
       /\ result.at = "ignore" =>
             \E k \in DOMAIN call.args :
                 call.args[k] = "--ignore" /\ Following(call.args, k) = << >>

-----------------------------------------------------------------------------
(* Properties of the signals around the reaping of the child *)

\* C37: whatever the moment a signal arrives, forward_signal_handler sends it to
\* the process group of CHILD_PGID only while the child it names is not reaped
C37_NoSignalToReapedGroup ==
    \A k \in DOMAIN signals :
        signals[k].action = "forwarded" => ChildRuns(signals[k].at)

\* What does hold: once CHILD_PGID is reset no signal is sent to the group.
NoSignalAfterReset ==
    \A k \in DOMAIN signals :
        signals[k].action = "forwarded" => signals[k].at \in {"wait", "reaped"}

-----------------------------------------------------------------------------
(* Properties of the working statistics *)

WorkingStatsDone == call.fn = "calculate_working_stats" /\ result # Pending

Counters == {"pure_human_lines", "mixed_lines", "pure_ai_lines", "total_lines"}

\* the sum of one counter over the entries of by_file
RECURSIVE SumOver(_, _)
SumOver(by_file, counter) ==
    IF DOMAIN by_file = {} THEN 0
    ELSE LET p == CHOOSE p \in DOMAIN by_file : TRUE
         IN  by_file[p][counter]
             + SumOver([q \in DOMAIN by_file \ {p} |-> by_file[q]], counter)

Partitioned(stats) ==
    stats.total_lines = stats.pure_human_lines + stats.mixed_lines + stats.pure_ai_lines

\* C38: in every result of calculate_working_stats, and in every FileStats that
\* calculate_file_stats returned to it, total_lines is the sum of the three
\* categories; each counter of the result is the sum of that counter over
\* by_file; files_changed is the number of entries of by_file
C38_CountersAddUp ==
    (WorkingStatsDone /\ result.kind = "Ok") =>
        /\ Partitioned(result)
        /\ \A p \in DOMAIN result.by_file : Partitioned(result.by_file[p])
        /\ \A counter \in Counters : result[counter] = SumOver(result.by_file, counter)
        /\ result.files_changed = Cardinality(DOMAIN result.by_file)

\* two files counted, one ignored or not: a mixed line in one, a pure AI line in
\* another, and a line left out of the total because nothing is attributed to it
C38_Witness ==
    /\ WorkingStatsDone
    /\ result.kind = "Ok"
    /\ result.files_changed = 2
    /\ result.mixed_lines > 0 /\ result.pure_ai_lines > 0
    /\ \E p \in DOMAIN result.by_file :
          result.by_file[p].total_lines < Len(Lines(call.files[p].content))

-----------------------------------------------------------------------------
(* Properties of the lines counted by calculate_file_stats *)

\* the attributions cover the characters [0, n) without gaps
CoversWithoutGaps(attributions, n) ==
    \A pos \in 0..(n - 1) :
        \E k \in DOMAIN attributions :
            attributions[k].start <= pos /\ pos < attributions[k].end

FullyAttributed ==
    /\ StatsDone
    /\ result.kind = "Ok"
    /\ CoversWithoutGaps(call.attributions, Len(call.content))

\* C39: when the attributions cover the whole content without gaps, every line
\* of the content, the empty ones included, is counted in one of pure_human, mixed
\* and pure_ai, and total_lines is the number of lines of the content
C39_EveryLineCounted ==
    FullyAttributed =>
        /\ \A l \in DOMAIN result.category : result.category[l] # "skip"
        /\ result.total_lines = Cardinality(LineStarts(call.content))

\* What does hold: every line that is not empty is counted.
NonEmptyLinesCounted ==
    FullyAttributed =>
        \A l \in DOMAIN result.category :
            Lines(call.content)[l] # << >> => result.category[l] # "skip"

\* C40: calculate_file_stats returns Ok for every content that is not empty and
\* every attribution list: it does not panic
C40_NeverPanics == StatsDone => result.kind = "Ok"

\* What does hold: it returns Ok for a first line that is not empty, of one-byte
\* characters only, and without overflow checks for every such content.
AsciiNeverPanics ==
    (StatsDone /\ \A k \in DOMAIN call.content : call.content[k] # Wide
        /\ Lines(call.content)[1] # << >>)
    => result.kind = "Ok"

====
